---- MODULE Spec2Model ----
(***************************************************************************)
(* Job lifecycle of the asynchronous web page analyser: the submission     *)
(* handler (analyseUrl), the Redis job store (storage.service), the Bull   *)
(* work queue (queue.service), the worker (worker.js / processJob) and the *)
(* cleanup service.  The awaits of the store operations are separate steps *)
(* of the model, so that the read-merge-write of updateJob and the         *)
(* get-then-update of updateJobIfPending interleave as they do in the      *)
(* program; consecutive reads of the queue inside getJobInfo are one step. *)
(***************************************************************************)
EXTENDS Integers, Sequences, FiniteSets, TLC

\* ---------------------------------------------------------------- bounds
MaxJobs == 1
MaxRuns == 1
MaxCallers == 2
MaxIds == 3
MaxTicks == 2
MaxWaiting == 2
MaxInProgress == 3
MaxCompleted == 2
MaxUrlLength == 2048

\* ------------------------------------------------------ program constants
MaxAttempts == 3
MaxStalledCount == 2
Concurrency == 2
OK == 200
ACCEPTED == 202
BAD_REQUEST == 400
NOT_FOUND == 404
INTERNAL_SERVER_ERROR == 500
SERVICE_UNAVAILABLE == 503

Requests == 1..MaxJobs
JobIds == 1..MaxJobs
Workers == 1..Concurrency

PENDING == "PENDING"
PROCESSING == "PROCESSING"
COMPLETED == "COMPLETED"
FAILED == "FAILED"
JOB_STATUS == {PENDING, PROCESSING, COMPLETED, FAILED}
Terminal == {COMPLETED, FAILED}

\* A key that is not in Redis (redis.get returns null).
Absent == [status |-> "ABSENT"]
NoData == [status |-> "NONE"]

\* Messages and types of the errors the handlers store or rethrow.
ErrMessage(e) ==
    CASE e = "fetch_retryable" -> "Server error (HTTP 503)"
      [] e = "fetch_nonretryable" -> "URL not found (HTTP 404)"
      [] e = "storage" -> "update job failed after 3 attempts"   \* retryOperation's StorageError
      [] e = "notfound" -> "Job not found"
      [] OTHER -> "Unknown processing error"

ErrType(e) ==
    CASE e = "fetch_retryable" -> "NETWORK_ERROR"
      [] e = "fetch_nonretryable" -> "NETWORK_ERROR"
      [] e = "storage" -> "STORAGE_ERROR"
      [] e = "notfound" -> "NOT_FOUND_ERROR"
      [] OTHER -> "UNKNOWN_ERROR"

\* ------------------------------------------------------------- job store
Fields == {"job_id", "url", "status", "results", "http_status_code", "error", "error_type"}

\* A record created as already failed (not the program's).
NewJobFailed(j) ==
    [job_id |-> j, url |-> j, status |-> FAILED, results |-> "none",
     http_status_code |-> 0, error |-> "none", error_type |-> "none"]

\* createJob's jobToStore: { job_id, url, status: PENDING }
NewJob(j) ==
    [job_id |-> j, url |-> j, status |-> PENDING, results |-> "none",
     http_status_code |-> 0, error |-> "none", error_type |-> "none"]

\* updateJob's { ...existing, ...updateData }
Merge(existing, data) ==
    [f \in Fields |-> IF f \in DOMAIN data THEN data[f] ELSE existing[f]]

\* A claim test that also re-claims a job left PROCESSING (not the program's).
IsPendingOrProcessing(job) == job.status \in {PENDING, PROCESSING}

\* updateJobIfPending's test of the record it read
IsPending(job) == job.status = PENDING

\* The updateData of each updateJob call site.
\* A non-retryable failure stored as still pending (not the program's).
NonRetryDataPending(e) == [status |-> PENDING, error |-> ErrMessage(e)]
NonRetryData(e) == [status |-> FAILED, error |-> ErrMessage(e), error_type |-> ErrType(e)]
\* A final write that stores the status without the results (not the program's).
SaveDataNoResults(results) == [status |-> COMPLETED, http_status_code |-> 200]

SaveData(results) == [status |-> COMPLETED, results |-> results, http_status_code |-> 200]

UpdateData(site, e, results) ==
    CASE site = "claim" -> [status |-> PROCESSING]
      [] site = "nonretry" -> NonRetryData(e)
      [] site = "parse" -> [status |-> FAILED, error |-> "Failed to parse HTML",
                            error_type |-> "PARSE_ERROR"]
      [] site = "save" -> SaveData(results)
      [] OTHER -> [status |-> FAILED, error |-> ErrMessage(e), error_type |-> ErrType(e)]

\* parseHtml: the parsed results; an error inside the parser is caught there and
\* answered with default results that carry a parse_error field.
ParseHtml(html) == IF html = "malformed" THEN "defaults_with_parse_error" ELSE "parsed"

\* validateResults: the six required fields are there and well typed.  Both
\* results of parseHtml have them.
ValidateResults(results) == results \in {"parsed", "defaults_with_parse_error"}

VARIABLES
    store,        \* Redis: job_id -> stored record, or Absent
    q,            \* Bull: job_id -> work item (state, attemptsMade, ...)
    waitq,        \* Bull: the wait list, in delivery order
    sub,          \* analyseUrl: request -> the handler's position and response
    nextId,       \* generateNumericJobId: the next id to allocate
    wk,           \* worker slot -> position of its processJob execution
    redisUp,      \* Redis (the job store and Bull's backend) answers
    claimWins,    \* history: job_id -> calls of updateJobIfPending that returned true
    created,      \* history: the job_ids whose createJob succeeded
    enqueueCalled,\* history: the job_ids queueService.enqueue was called for
    orphaned,     \* history: the job_ids whose worker stopped after it had claimed the job
    totalRunsCompleted, \* CleanupService.stats.totalRunsCompleted
    qry,          \* getResults: the handler's position and response
    hist,         \* history: the job_ids that expired, that a worker stored an
                  \* outcome for, and that were lost when a cleanup run ended
    sw,           \* CleanupService: position of the running cleanup
    call,         \* storage.service: caller -> the store operation it runs
    idgen,        \* jobIdGenerator: the clock, lastTimestamp, sequence, ids returned
    fx,           \* fetcher: the fetchUrlWithRetry call in progress
    sd,           \* worker.js: the shutdown handler and the items the worker holds
    svc,          \* CleanupService: isRunning, its timer and the runs in progress
    uv            \* urlValidator: the last URL validated and the answer

vars == <<store, q, waitq, sub, nextId, wk, redisUp, claimWins, created, enqueueCalled, orphaned, totalRunsCompleted, qry, hist, sw, call, idgen, fx, sd, svc, uv>>

NoItem == [state |-> "none", attemptsMade |-> 0, stalled |-> 0, lock |-> 0,
           returnvalue |-> "none", failedReason |-> "none"]
NewRequest == [pc |-> "new", job |-> 0, snap |-> NoData, resp |-> 0, err |-> "none"]
\* start, writes and fetched are history: the stored status when processJob was
\* called, the store writes it made and whether it fetched the URL.
Idle == [pc |-> "idle", job |-> 0, site |-> "none", snap |-> NoData, err |-> "none",
         res |-> "none", start |-> "none", writes |-> 0, fetched |-> FALSE,
         results |-> "none"]

NoQuery == [pc |-> "idle", job |-> 0, snap |-> "none", found |-> FALSE, state |-> "none",
            position |-> -1, resp |-> 0, view |-> "none", results |-> "none",
            error |-> "none", read |-> FALSE, valid |-> TRUE]
NoHistory == [expired |-> {}, finished |-> {}, sweptLost |-> {},
              createOk |-> [j \in JobIds |-> 0]]
NoSweep == [pc |-> "idle", todo |-> {}, job |-> 0, kind |-> "none", snap |-> NoData]
Callers == 1..MaxCallers
\* attempt is the attempt retryOperation is about to make; tries, result and ret
\* are what the operation ended with.
NoCall == [pc |-> "idle", op |-> "none", id |-> 0, data |-> NoData, attempt |-> 0,
           snap |-> NoData, result |-> "none", ret |-> NoData, tries |-> 0]

\* ------------------------------------------------------- jobIdGenerator
\* A millisecond timestamp t is the pair <<t \div 10^6, t % 10^6>>; a string is
\* the sequence of its characters.
SequenceModulus == 1000000
TimestampDigits == 13
SequenceDigits == 6
IdDigits == 19
Digs == <<"0", "1", "2", "3", "4", "5", "6", "7", "8", "9">>
DigitChars == {Digs[i] : i \in 1..10}
CharVal(ch) == (CHOOSE i \in 1..10 : Digs[i] = ch) - 1

TsLess(a, b) == a[1] < b[1] \/ (a[1] = b[1] /\ a[2] < b[2])
\* A comparison that leaves the bound itself out (not the program's).
TsLeqStrict(a, b) == TsLess(a, b)
TsLeq(a, b) == a = b \/ TsLess(a, b)
TsNext(t) == IF t[2] = SequenceModulus - 1 THEN <<t[1] + 1, 0>> ELSE <<t[1], t[2] + 1>>
TsPrev(t) == IF t[2] = 0 THEN <<t[1] - 1, SequenceModulus - 1>> ELSE <<t[1], t[2] - 1>>

\* Number.prototype.toString of a natural number
RECURSIVE NumStr(_)
NumStr(n) == IF n < 10 THEN <<Digs[n + 1]>> ELSE NumStr(n \div 10) \o <<Digs[(n % 10) + 1]>>

\* String.prototype.padStart(width, "0")
RECURSIVE PadStart(_, _)
PadStart(str, width) == IF Len(str) >= width THEN str ELSE PadStart(<<"0">> \o str, width)

\* `${timestamp}`
TsStr(t) ==
    IF t[1] = 0 THEN NumStr(t[2]) ELSE NumStr(t[1]) \o PadStart(NumStr(t[2]), SequenceDigits)

\* An id whose sequence is not padded (not the program's).
JobIdOfUnpadded(timestamp, sequence) ==
    TsStr(timestamp) \o NumStr(sequence)

\* `${timestamp}${sequencePadded}`
JobIdOf(timestamp, sequence) ==
    TsStr(timestamp) \o PadStart(NumStr(sequence), SequenceDigits)

\* parseInt(str, 10) of a string of at most 13 characters: the number its
\* leading digits spell, or NaN when it does not start with a digit.
NaN == <<-1, -1>>
Throws == <<-2, -2>>
RECURSIVE DigitsValue(_)
DigitsValue(str) ==
    IF Len(str) = 0 THEN 0
    ELSE 10 * DigitsValue(SubSeq(str, 1, Len(str) - 1)) + CharVal(str[Len(str)])
DigitPrefix(str) ==
    LET n == IF \E i \in 1..Len(str) : str[i] \notin DigitChars
             THEN (CHOOSE i \in 1..Len(str) :
                      str[i] \notin DigitChars /\ \A k \in 1..(i - 1) : str[k] \in DigitChars) - 1
             ELSE Len(str)
    IN SubSeq(str, 1, n)
ParseInt(str) ==
    LET d == DigitPrefix(str) IN
    IF Len(d) = 0 THEN NaN
    ELSE IF Len(d) <= SequenceDigits THEN <<0, DigitsValue(d)>>
    ELSE <<DigitsValue(SubSeq(d, 1, Len(d) - SequenceDigits)),
           DigitsValue(SubSeq(d, Len(d) - SequenceDigits + 1, Len(d)))>>

\* getTimestampFromJobId of a string
GetTimestampFromJobId(str) ==
    IF Len(str) = 0 \/ Len(str) < TimestampDigits THEN Throws
    ELSE LET timestamp == ParseInt(SubSeq(str, 1, TimestampDigits)) IN
         IF timestamp = NaN THEN Throws ELSE timestamp

\* year2000 = 946684800000, year2100 = 4102444800000
Year2000 == <<946684, 800000>>
Year2100 == <<4102444, 800000>>

\* isValidJobId of a value x = [type, chars]
IsValidJobId(x) ==
    IF x.type # "string" THEN FALSE
    ELSE IF ~(Len(x.chars) = IdDigits /\ \A i \in 1..Len(x.chars) : x.chars[i] \in DigitChars)
    THEN FALSE
    ELSE LET timestamp == GetTimestampFromJobId(x.chars) IN
         IF timestamp = Throws THEN FALSE
         ELSE TsLeq(Year2000, timestamp) /\ TsLeq(timestamp, Year2100)

\* Date.now() when the process starts (November 2026, one millisecond before
\* the low six digits of the timestamp roll over), and what Math.random gives.
ClockStart == <<1793624, 999998>>
RECURSIVE TsPlus(_, _)
TsPlus(t, n) == IF n = 0 THEN t ELSE TsPlus(TsNext(t), n - 1)

Str(chars) == [type |-> "string", chars |-> chars]
Chars(str, n) == [i \in 1..n |-> str]
\* The values isValidJobId is called with.
IdInputs ==
    {Str(TsStr(ClockStart) \o PadStart(NumStr(123456), SequenceDigits)),
     Str(PadStart(TsStr(Year2000), TimestampDigits) \o Chars("0", 6)),
     Str(PadStart(TsStr(TsPrev(Year2000)), TimestampDigits) \o Chars("9", 6)),
     Str(TsStr(Year2100) \o Chars("9", 6)),
     Str(TsStr(TsNext(Year2100)) \o Chars("0", 6)),
     Str(PadStart(<<"1">>, TimestampDigits) \o Chars("1", 6)),
     Str(Chars("9", 19)),
     Str(Chars("1", 5)), Str(Chars("1", 18)), Str(Chars("1", 20)), Str(<<>>),
     Str(TsStr(ClockStart) \o <<"a", "b", "c", "4", "5", "6">>),
     Str(Chars("a", 19)),
     Str(TsStr(ClockStart) \o <<"-", "4", "5", "6", "7", "8">>),
     Str(TsStr(ClockStart) \o <<" ", "4", "5", "6", "7", "8">>),
     Str(<<" ">> \o Chars("1", 18)),
     [type |-> "number", chars |-> <<>>], [type |-> "null", chars |-> <<>>],
     [type |-> "undefined", chars |-> <<>>], [type |-> "object", chars |-> <<>>]}

\* lastTimestamp = 0, sequence = 0; ids, stepped and checked are history: the
\* ids returned with the timestamp and sequence of each, whether the clock was
\* ever set back, and the last call of isValidJobId.
NoIds == [pc |-> "idle", clock |-> ClockStart, lastTimestamp |-> <<0, 0>>, sequence |-> 0,
          ids |-> <<>>, stepped |-> FALSE,
          checked |-> [input |-> [type |-> "none", chars |-> <<>>], result |-> FALSE]]
\* The worker process before a signal: pc is the position of shutdown(signal),
\* elapsed the milliseconds since the wait for active jobs began, active the
\* items this worker is processing, waiting the items in the wait list;
\* closeQueueDone and storeClosed tell which of the two closes returned.
NoShutdown == [pc |-> "running", paused |-> FALSE, elapsed |-> 0, sawIdle |-> FALSE,
               closeQueueDone |-> FALSE, storeClosed |-> FALSE, exitCode |-> -1,
               active |-> 0, waiting |-> 0]
\* The cleanup service after its constructor: timers is the number of live
\* interval timers, runs the positions of the runCleanup executions in progress.
NoService == [isRunning |-> FALSE, intervalId |-> 0, timers |-> 0, runs |-> <<>>,
              completed |-> 0]
\* No request body has been validated yet.
NoValidation == [input |-> [type |-> "none"], valid |-> FALSE, error |-> "none", status |-> 0]
\* fetchUrlWithRetry not called; errors are the errors of the attempts made.
NoFetch == [pc |-> "idle", attempt |-> 0, errors |-> <<>>, last |-> [status |-> 0, code |-> "none"],
            result |-> "none", maxRetries |-> 0]

Init ==
    /\ store = [j \in JobIds |-> Absent]
    /\ q = [j \in JobIds |-> NoItem]
    /\ waitq = <<>>
    /\ sub = [r \in Requests |-> NewRequest]
    /\ nextId = 1
    /\ wk = [w \in Workers |-> Idle]
    /\ redisUp = TRUE
    /\ claimWins = [j \in JobIds |-> 0]
    /\ created = {}
    /\ enqueueCalled = {}
    /\ orphaned = {}
    /\ totalRunsCompleted = 0
    /\ qry = NoQuery
    /\ hist = NoHistory
    /\ sw = NoSweep
    /\ call = [c \in Callers |-> NoCall]
    /\ idgen = NoIds
    /\ fx = NoFetch
    /\ sd = NoShutdown
    /\ svc = NoService
    /\ uv = NoValidation

\* ------------------------------------------------- analyseUrl (submission)
\* A handler whose catch of createJob does not return (not the program's).
AfterCreateFailureGoesOn == "enqueue"

\* What analyseUrl does once createJob has thrown: it answers 503 and returns.
AfterCreateFailure == "done"


Respond(r, job, code, e) ==
    sub' = [sub EXCEPT ![r] = [pc |-> "done", job |-> job, snap |-> NoData,
                               resp |-> code, err |-> e]]

\* createJob threw: 503 "Storage system is unavailable", unless the handler goes on.
CreateFailed(r) ==
    IF AfterCreateFailure = "done"
    THEN Respond(r, sub[r].job, SERVICE_UNAVAILABLE, "storage")
    ELSE sub' = [sub EXCEPT ![r].pc = AfterCreateFailure]

\* A handler that allocates the job id before it validates (not the program's).
IdAfterSubmitAlways(valid, id) == id + 1

\* generateNumericJobId is called once the URL was found valid.
IdAfterSubmit(valid, id) == IF valid THEN id + 1 ELSE id

\* POST /api/analyse: validateUrlComplete, then generateNumericJobId.
Submit(r, valid) ==
    /\ sub[r].pc = "new"
    /\ \A r2 \in Requests : r2 < r => sub[r2].pc # "new"
    /\ IF valid
       THEN sub' = [sub EXCEPT ![r].pc = "create_exists", ![r].job = nextId]
       ELSE Respond(r, 0, BAD_REQUEST, "validation")
    /\ nextId' = IdAfterSubmit(valid, nextId)
    /\ UNCHANGED <<store, q, waitq, wk, redisUp, claimWins, created, enqueueCalled, orphaned, totalRunsCompleted, qry, hist, sw, call, idgen, fx, sd, svc, uv>>

\* createJob: redis.exists(key), one attempt.
CreateExists(r) ==
    /\ sub[r].pc = "create_exists"
    /\ IF redisUp /\ store[sub[r].job] = Absent
       THEN sub' = [sub EXCEPT ![r].pc = "create_set"]
       ELSE CreateFailed(r)
    /\ UNCHANGED <<store, q, waitq, nextId, wk, redisUp, claimWins, created, enqueueCalled, orphaned, totalRunsCompleted, qry, hist, sw, call, idgen, fx, sd, svc, uv>>

\* createJob: redis.setex(key, TTL, value), one attempt.
CreateSet(r) ==
    /\ sub[r].pc = "create_set"
    /\ IF redisUp
       THEN /\ store' = [store EXCEPT ![sub[r].job] = NewJob(sub[r].job)]
            /\ created' = created \cup {sub[r].job}
            /\ sub' = [sub EXCEPT ![r].pc = "enqueue"]
       ELSE /\ CreateFailed(r)
            /\ UNCHANGED <<store, created>>
    /\ UNCHANGED <<q, waitq, nextId, wk, redisUp, claimWins, enqueueCalled, orphaned, totalRunsCompleted, qry, hist, sw, call, idgen, fx, sd, svc, uv>>

\* queueService.enqueue({job_id, url}, {timeout: 5000, attempts: 3, ...}): queue.add.
Enqueue(r) ==
    /\ sub[r].pc = "enqueue"
    /\ IF redisUp
       THEN /\ q' = [q EXCEPT ![sub[r].job].state = "waiting"]
            /\ waitq' = Append(waitq, sub[r].job)
            /\ Respond(r, sub[r].job, ACCEPTED, "none")
       ELSE /\ sub' = [sub EXCEPT ![r].pc = "fail_upd_get"]
            /\ UNCHANGED <<q, waitq>>
    /\ enqueueCalled' = enqueueCalled \cup {sub[r].job}
    /\ UNCHANGED <<store, nextId, wk, redisUp, claimWins, created, orphaned, totalRunsCompleted, qry, hist, sw, call, idgen, fx, sd, svc, uv>>

\* The catch of the enqueue: updateJob(job_id, {FAILED, "Failed to queue job"}),
\* its getJob.  A failure of the update is logged and swallowed.
QueueFailUpdGet(r) ==
    /\ sub[r].pc = "fail_upd_get"
    /\ IF redisUp /\ store[sub[r].job] # Absent
       THEN sub' = [sub EXCEPT ![r].pc = "fail_upd_set", ![r].snap = store[sub[r].job]]
       ELSE Respond(r, sub[r].job, SERVICE_UNAVAILABLE, "queue")
    /\ UNCHANGED <<store, q, waitq, nextId, wk, redisUp, claimWins, created, enqueueCalled, orphaned, totalRunsCompleted, qry, hist, sw, call, idgen, fx, sd, svc, uv>>

\* ... and its setex of the merged record; then 503 "Queue system is down".
QueueFailUpdSet(r) ==
    /\ sub[r].pc = "fail_upd_set"
    /\ IF redisUp
       THEN store' = [store EXCEPT ![sub[r].job] = Merge(sub[r].snap, [status |-> FAILED, error |-> "Failed to queue job"])]
       ELSE UNCHANGED store
    /\ Respond(r, sub[r].job, SERVICE_UNAVAILABLE, "queue")
    /\ UNCHANGED <<q, waitq, nextId, wk, redisUp, claimWins, created, enqueueCalled, orphaned, totalRunsCompleted, qry, hist, sw, call, idgen, fx, sd, svc, uv>>

\* ------------------------------------------------------ worker: processJob
Handling(w) == wk[w].pc # "idle"

\* processJob returns an object (no throw): res is "success" ({success: true}),
\* "skipped" (the claim was refused) or "failed" ({success: false, retryable: false}).
Return(w, res, wrote) ==
    wk' = [wk EXCEPT ![w].pc = "returned", ![w].res = res, ![w].site = "none",
                     ![w].snap = NoData, ![w].err = "none", ![w].writes = @ + wrote]

\* processJob rethrows e to Bull.
Throw(w, e, wrote) ==
    wk' = [wk EXCEPT ![w].pc = "threw", ![w].res = "none", ![w].site = "none",
                     ![w].snap = NoData, ![w].err = e, ![w].writes = @ + wrote]

\* processJob calls updateJob at the given call site.
CallUpdate(w, site, e) ==
    wk' = [wk EXCEPT ![w].pc = "upd_get", ![w].site = site, ![w].snap = NoData,
                     ![w].err = e, ![w].fetched = (site # "claim")]

\* The catch block of processJob (its last 25 lines): it tries to store FAILED
\* with the error, then rethrows.
OuterCatch(w, e) == CallUpdate(w, "catch", e)

\* A retryable fetch error that leaves processJob at once (not the program's).
OnRetryableFetchErrorLeaves(w) == Throw(w, "fetch_retryable", 0)

\* A retryable fetch error is rethrown ("let Bull retry the job") from inside the
\* outer try block.
OnRetryableFetchError(w) == OuterCatch(w, "fetch_retryable")

\* An updateJob call of processJob succeeded.
UpdateSucceeded(w) ==
    CASE wk[w].site = "claim" ->
           wk' = [wk EXCEPT ![w].pc = "fetch", ![w].site = "none", ![w].snap = NoData,
                            ![w].writes = @ + 1]
      [] wk[w].site = "nonretry" -> Return(w, "failed", 1)
      [] wk[w].site = "parse" -> Return(w, "failed", 1)
      [] wk[w].site = "save" -> Return(w, "success", 1)
      [] OTHER -> Throw(w, wk[w].err, 1)

\* An updateJob call of processJob threw the StorageError e.
UpdateFailed(w, e) ==
    CASE wk[w].site = "claim" -> Return(w, "skipped", 0)
      [] wk[w].site \in {"nonretry", "parse", "save"} -> OuterCatch(w, e)
      [] OTHER -> Throw(w, wk[w].err, 0)

\* updateJobIfPending: its getJob and its test of the status.  Every error is
\* caught and answered false; processJob then returns without processing.
ClaimGet(w) ==
    /\ wk[w].pc = "claim_get"
    /\ IF redisUp /\ store[wk[w].job] # Absent /\ IsPending(store[wk[w].job])
       THEN CallUpdate(w, "claim", "none")
       ELSE Return(w, "skipped", 0)
    /\ UNCHANGED <<store, q, waitq, sub, nextId, redisUp, claimWins, created, enqueueCalled, orphaned, totalRunsCompleted, qry, hist, sw, call, idgen, fx, sd, svc, uv>>

\* updateJob: its getJob (existing).
UpdGet(w) ==
    /\ wk[w].pc = "upd_get"
    /\ IF ~redisUp THEN UpdateFailed(w, "storage")
       ELSE IF store[wk[w].job] = Absent THEN UpdateFailed(w, "notfound")
       ELSE wk' = [wk EXCEPT ![w].pc = "upd_set", ![w].snap = store[wk[w].job]]
    /\ UNCHANGED <<store, q, waitq, sub, nextId, redisUp, claimWins, created, enqueueCalled, orphaned, totalRunsCompleted, qry, hist, sw, call, idgen, fx, sd, svc, uv>>

\* updateJob: setex of { ...existing, ...updateData }.
UpdSet(w) ==
    /\ wk[w].pc = "upd_set"
    /\ IF redisUp
       THEN /\ store' = [store EXCEPT ![wk[w].job] =
                            Merge(wk[w].snap, UpdateData(wk[w].site, wk[w].err, wk[w].results))]
            /\ claimWins' = [claimWins EXCEPT ![wk[w].job] =
                                IF wk[w].site = "claim" THEN @ + 1 ELSE @]
            /\ hist' = [hist EXCEPT !.finished =
                                IF wk[w].site = "claim" THEN @ ELSE @ \cup {wk[w].job}]
            /\ UpdateSucceeded(w)
       ELSE /\ UpdateFailed(w, "storage")
            /\ UNCHANGED <<store, claimWins, hist>>
    /\ UNCHANGED <<q, waitq, sub, nextId, redisUp, created, enqueueCalled, orphaned, totalRunsCompleted, qry, sw, call, idgen, fx, sd, svc, uv>>

\* What fetchUrlWithRetry ends with (outcome): a page ("wellformed", or one the
\* parser fails on, "malformed"), a "retryable" or a "nonretryable" error.

\* processJob after the fetch returned html: parseHtml, validateResults, then the
\* final write, or the write of the parse failure.
AfterFetch(w, html) ==
    IF ValidateResults(ParseHtml(html))
    THEN wk' = [wk EXCEPT ![w].pc = "upd_get", ![w].site = "save", ![w].snap = NoData,
                          ![w].err = "none", ![w].fetched = TRUE,
                          ![w].results = ParseHtml(html)]
    ELSE CallUpdate(w, "parse", "none")

\* fetchUrlWithRetry(url, 3) and what processJob does with its outcome.
Fetch(w, outcome) ==
    /\ wk[w].pc = "fetch"
    /\ CASE outcome = "retryable" -> OnRetryableFetchError(w)
         [] outcome = "nonretryable" -> CallUpdate(w, "nonretry", "fetch_nonretryable")
         [] OTHER -> AfterFetch(w, outcome)
    /\ UNCHANGED <<store, q, waitq, sub, nextId, redisUp, claimWins, created, enqueueCalled, orphaned, totalRunsCompleted, qry, hist, sw, call, idgen, fx, sd, svc, uv>>

\* ----------------------------------------------------- Bull: the work queue

\* queue.process(concurrency, handler): Bull takes the head of the wait list,
\* locks it for the worker and calls the handler, which calls processJob.
Deliver(w) ==
    /\ wk[w].pc = "idle"
    /\ \A w2 \in Workers : w2 < w => wk[w2].pc # "idle"
    /\ redisUp
    /\ waitq # <<>>
    /\ LET j == Head(waitq) IN
         /\ q' = [q EXCEPT ![j].state = "active", ![j].lock = w]
         /\ wk' = [wk EXCEPT ![w] = [Idle EXCEPT !.pc = "claim_get", !.job = j,
                                                 !.start = store[j].status]]
    /\ waitq' = Tail(waitq)
    /\ UNCHANGED <<store, sub, nextId, redisUp, claimWins, created, enqueueCalled, orphaned, totalRunsCompleted, qry, hist, sw, call, idgen, fx, sd, svc, uv>>

\* Bull's moveToFailed: one more attempt made; retried after the backoff while
\* attempts are left, else failed for good (the worker's "failed" handler only logs).
ItemFailed(item, reason) ==
    [item EXCEPT !.attemptsMade = @ + 1,
                 !.state = IF item.attemptsMade + 1 < MaxAttempts THEN "delayed" ELSE "failed",
                 !.lock = 0,
                 !.failedReason = reason]

\* The handler of queue.process ends: processJob returned (job.progress(100), then
\* the result goes to Bull, which completes the item) or threw (Bull fails the
\* attempt).  A handler that no longer holds the item's lock changes nothing.
Finish(w) ==
    /\ wk[w].pc \in {"returned", "threw"}
    /\ redisUp
    /\ LET j == wk[w].job IN
         q' = IF q[j].state = "active" /\ q[j].lock = w
              THEN IF wk[w].pc = "returned"
                   THEN [q EXCEPT ![j].state = "completed", ![j].lock = 0,
                                  ![j].returnvalue = wk[w].res]
                   ELSE [q EXCEPT ![j] = ItemFailed(q[j], wk[w].err)]
              ELSE q
    /\ wk' = [wk EXCEPT ![w] = Idle]
    /\ UNCHANGED <<store, waitq, sub, nextId, redisUp, claimWins, created, enqueueCalled, orphaned, totalRunsCompleted, qry, hist, sw, call, idgen, fx, sd, svc, uv>>

\* The item's timeout (5000 ms) passes while the handler runs: Bull fails the
\* attempt with a timeout error; the handler itself keeps running.
JobTimeout(w) ==
    /\ wk[w].pc \in {"claim_get", "upd_get", "upd_set", "fetch"}
    /\ redisUp
    /\ q[wk[w].job].state = "active" /\ q[wk[w].job].lock = w
    /\ q' = [q EXCEPT ![wk[w].job] = ItemFailed(q[wk[w].job], "timeout")]
    /\ UNCHANGED <<store, waitq, sub, nextId, wk, redisUp, claimWins, created, enqueueCalled, orphaned, totalRunsCompleted, qry, hist, sw, call, idgen, fx, sd, svc, uv>>

\* The backoff of a failed attempt is over: the item waits again.
Promote(j) ==
    /\ q[j].state = "delayed"
    /\ redisUp
    /\ q' = [q EXCEPT ![j].state = "waiting"]
    /\ waitq' = Append(waitq, j)
    /\ UNCHANGED <<store, sub, nextId, wk, redisUp, claimWins, created, enqueueCalled, orphaned, totalRunsCompleted, qry, hist, sw, call, idgen, fx, sd, svc, uv>>

\* The worker process stops in the middle of a handler: the handler is gone and
\* the item's lock is no longer renewed.
Crash(w) ==
    /\ Handling(w)
    /\ q' = [q EXCEPT ![wk[w].job].lock = IF @ = w THEN 0 ELSE @]
    /\ wk' = [wk EXCEPT ![w] = Idle]
    /\ orphaned' = IF wk[w].writes > 0 /\ q[wk[w].job].state = "active" /\ q[wk[w].job].lock = w
                   THEN orphaned \cup {wk[w].job} ELSE orphaned
    /\ UNCHANGED <<store, waitq, sub, nextId, redisUp, claimWins, created, enqueueCalled, totalRunsCompleted, qry, hist, sw, call, idgen, fx, sd, svc, uv>>

\* Bull's stalled check (stalledInterval 30 s, maxStalledCount 2): an active item
\* without a lock goes back to the wait list, or fails once it stalled too often.
StalledCheck(j) ==
    /\ q[j].state = "active" /\ q[j].lock = 0
    /\ redisUp
    /\ IF q[j].stalled + 1 > MaxStalledCount
       THEN /\ q' = [q EXCEPT ![j].state = "failed", ![j].stalled = @ + 1,
                              ![j].failedReason = "stalled"]
            /\ UNCHANGED waitq
       ELSE /\ q' = [q EXCEPT ![j].state = "waiting", ![j].stalled = @ + 1]
            /\ waitq' = Append(waitq, j)
    /\ UNCHANGED <<store, sub, nextId, wk, redisUp, claimWins, created, enqueueCalled, orphaned, totalRunsCompleted, qry, hist, sw, call, idgen, fx, sd, svc, uv>>

\* ------------------------------------------------------------ environment
\* Redis, which holds the job records and Bull's queue, fails and recovers.  An
\* operation of the store or of the queue fails when Redis is down at that time.
RedisDown ==
    /\ redisUp
    /\ redisUp' = FALSE
    /\ UNCHANGED <<store, q, waitq, sub, nextId, wk, claimWins, created, enqueueCalled, orphaned, totalRunsCompleted, qry, hist, sw, call, idgen, fx, sd, svc, uv>>

RedisBack ==
    /\ ~redisUp
    /\ redisUp' = TRUE
    /\ UNCHANGED <<store, q, waitq, sub, nextId, wk, claimWins, created, enqueueCalled, orphaned, totalRunsCompleted, qry, hist, sw, call, idgen, fx, sd, svc, uv>>

\* The record's TTL (48 h, set again by every setex) runs out.  48 h is far
\* longer than any handler runs, so no handler is in the middle of the job.
Expire(j) ==
    /\ store[j] # Absent
    /\ \A r \in Requests : sub[r].job = j => sub[r].pc = "done"
    /\ \A w \in Workers : wk[w].job # j
    /\ q[j].state \in {"none", "completed", "failed"}
    /\ sw.job # j
    /\ store' = [store EXCEPT ![j] = Absent]
    /\ hist' = [hist EXCEPT !.expired = @ \cup {j}]
    /\ UNCHANGED <<q, waitq, sub, nextId, wk, redisUp, claimWins, created, enqueueCalled, orphaned, totalRunsCompleted, qry, sw, call, idgen, fx, sd, svc, uv>>

\* ------------------------------------------------------- cleanup service
\* A lost job: its record is PENDING, the submission handler has returned and the
\* queue holds no work item for it.
Lost(j) ==
    /\ store[j].status = PENDING
    /\ q[j].state = "none"
    /\ \A r \in Requests : sub[r].job = j => sub[r].pc = "done"

\* runCleanup starts by calling storageService.findOldPendingJobs, which the
\* storage service does not define: the call throws a TypeError, the catch of
\* runCleanup logs it, and neither a job nor the statistics are touched.  The
\* run is taken when the lost jobs are older than the threshold.
RunCleanup ==
    /\ sw.pc = "idle"
    /\ hist' = [hist EXCEPT !.sweptLost = @ \cup {j \in JobIds : Lost(j)}]
    /\ UNCHANGED <<store, q, waitq, sub, nextId, wk, redisUp, claimWins, created, enqueueCalled, orphaned, totalRunsCompleted, qry, sw, call, idgen, fx, sd, svc, uv>>

\* The cleanup service with a storage service that provides findOldPendingJobs
\* as the specification describes it: the PENDING records older than the
\* threshold (10 min).  The age of a record is not part of the state: any
\* PENDING record whose submission has long returned may be old, and an old
\* record may be past the 30 minutes.
FindOldPendingJobs(old) ==
    {j \in old : /\ store[j] # Absent /\ store[j].status = PENDING
                 /\ \A r \in Requests : sub[r].job = j => sub[r].pc = "done"}

\* The updateData of cleanupJob for a lost job and for a stuck job.
LostData == [status |-> FAILED, error |-> "Job lost in queue after timeout. Please retry.",
             error_type |-> "TIMEOUT_ERROR"]
StuckData == [status |-> FAILED, error |-> "Job exceeded maximum processing time (30 minutes)",
              error_type |-> "TIMEOUT_ERROR"]

\* queueService.cleanOldJobs (queue.clean): the completed items older than 24 h
\* and the failed items older than 7 days leave the queue; an error is caught.
CleanOldJobs(old) ==
    [j \in JobIds |->
        IF /\ redisUp /\ j \in old
           /\ q[j].state \in {"completed", "failed"}
           /\ \A w \in Workers : wk[w].job # j
        THEN NoItem ELSE q[j]]

\* The for loop of runCleanup goes on to the next old job; once all were looked
\* at, the run ends with the queue's own cleaning and the statistics (which
\* touch no job the loop looked at, and are taken in the same step).
SweepGoOn(todo, old) ==
    IF todo = {}
    THEN /\ sw' = NoSweep
         /\ q' = CleanOldJobs(old)
         /\ totalRunsCompleted' = totalRunsCompleted + 1
    ELSE /\ LET j == CHOOSE x \in todo : \A y \in todo : x <= y
            IN sw' = [NoSweep EXCEPT !.pc = "info", !.todo = todo \ {j}, !.job = j]
         /\ UNCHANGED <<q, totalRunsCompleted>>

\* cleanupJob goes on to updateJob(job_id, {status: FAILED, ...}).
SweepMarkFailed(kind) == sw' = [sw EXCEPT !.pc = "upd_get", !.kind = kind]

\* runCleanup: findOldPendingJobs.  An error ends the run in its catch block.
SweepFind(found, old) ==
    /\ sw.pc = "idle"
    /\ totalRunsCompleted < MaxRuns
    /\ IF redisUp THEN SweepGoOn(FindOldPendingJobs(found), old)
       ELSE UNCHANGED <<sw, q, totalRunsCompleted>>
    /\ UNCHANGED <<store, waitq, sub, nextId, wk, redisUp, claimWins, created, enqueueCalled, orphaned, qry, hist, call, idgen, fx, sd, svc, uv>>

\* cleanupJob: getJobInfo, then the test of what it answered: not found (or an
\* error), or position -1 (a delayed, completed or failed item), is a lost job;
\* a waiting or active item is stuck once the job is older than 30 minutes.
SweepInfo(stuck, old) ==
    /\ sw.pc = "info"
    /\ IF ~redisUp \/ q[sw.job].state \notin {"waiting", "active"}
       THEN SweepMarkFailed("lost") /\ UNCHANGED <<q, totalRunsCompleted>>
       ELSE IF stuck THEN sw' = [sw EXCEPT !.pc = "remove"] /\ UNCHANGED <<q, totalRunsCompleted>>
       ELSE SweepGoOn(sw.todo, old)
    /\ UNCHANGED <<store, waitq, sub, nextId, wk, redisUp, claimWins, created, enqueueCalled, orphaned, qry, hist, call, idgen, fx, sd, svc, uv>>

\* queueService.removeJob: queue.getJob and job.remove(), which Bull refuses
\* for an item a worker holds the lock of; every error is caught.
SweepRemove ==
    /\ sw.pc = "remove"
    /\ IF redisUp /\ q[sw.job].state # "none" /\ q[sw.job].lock = 0
       THEN /\ q' = [q EXCEPT ![sw.job] = NoItem]
            /\ waitq' = SelectSeq(waitq, LAMBDA x : x # sw.job)
       ELSE UNCHANGED <<q, waitq>>
    /\ SweepMarkFailed("stuck")
    /\ UNCHANGED <<store, sub, nextId, wk, redisUp, claimWins, created, enqueueCalled, orphaned, totalRunsCompleted, qry, hist, call, idgen, fx, sd, svc, uv>>

\* updateJob called by cleanupJob: its getJob.  An error is caught by cleanupJob.
SweepUpdGet(old) ==
    /\ sw.pc = "upd_get"
    /\ IF redisUp /\ store[sw.job] # Absent
       THEN /\ sw' = [sw EXCEPT !.pc = "upd_set", !.snap = store[sw.job]]
            /\ UNCHANGED <<q, totalRunsCompleted>>
       ELSE SweepGoOn(sw.todo, old)
    /\ UNCHANGED <<store, waitq, sub, nextId, wk, redisUp, claimWins, created, enqueueCalled, orphaned, qry, hist, call, idgen, fx, sd, svc, uv>>

\* ... and its setex of { ...existing, ...updateData }.
SweepUpdSet(old) ==
    /\ sw.pc = "upd_set"
    /\ IF redisUp
       THEN store' = [store EXCEPT ![sw.job] =
                         Merge(sw.snap, IF sw.kind = "lost" THEN LostData ELSE StuckData)]
       ELSE UNCHANGED store
    /\ SweepGoOn(sw.todo, old)
    /\ UNCHANGED <<waitq, sub, nextId, wk, redisUp, claimWins, created, enqueueCalled, orphaned, qry, hist, call, idgen, fx, sd, svc, uv>>

\* ------------------------------------------------- getResults (status query)
\* A read that removes the key it read (not the program's).
StoreAfterGetDel(j) == [store EXCEPT ![j] = Absent]

\* storageService.getJob(job_id): redis.get(key); the store stays as it is.
StoreAfterGet(j) == store

\* waiting.findIndex((j) => j.id === job_id) + 1
PositionIn(waiting, j) ==
    IF \E i \in 1..Len(waiting) : waiting[i] = j
    THEN CHOOSE i \in 1..Len(waiting) :
            waiting[i] = j /\ \A k \in 1..(i - 1) : waiting[k] # j
    ELSE 0

\* A view that shows an active job as PROCESSING too (not the program's).
PresentedStatusFromZero(status, found, position) ==
    IF status = PENDING /\ found /\ position >= 0 THEN PROCESSING ELSE status

\* The status getResults answers for a stored status and the queue's information.
PresentedStatus(status, found, position) ==
    IF status = PENDING /\ found /\ position > 0 THEN PROCESSING ELSE status

\* An answer that passes the stored error on as it is (not the program's).
PresentedErrorStored(error) == error

\* response.error of a FAILED job: job.error || "Job processing failed"
PresentedError(error) ==
    IF error \in {"none", ""} THEN "Job processing failed" ELSE error

\* What getResults answers; read tells whether the store was read.
Response(j, code, snap, found, state, position) ==
    [pc |-> "done", job |-> j, snap |-> snap, found |-> found, state |-> state,
     position |-> position, resp |-> code,
     view |-> IF code \in {OK, INTERNAL_SERVER_ERROR}
              THEN PresentedStatus(snap, found, position) ELSE "none",
     results |-> "none", error |-> "none", read |-> (code # BAD_REQUEST), valid |-> TRUE]

QueryRespond(j, code, snap, found, state, position) ==
    qry' = Response(j, code, snap, found, state, position)

\* getResults for a record that is not PENDING: 200 with the results of a
\* COMPLETED and the error of a FAILED job; 500 for a status it does not know.
AnswerStored(j, job) ==
    IF job.status = PROCESSING THEN Response(j, OK, job.status, FALSE, "none", -1)
    ELSE IF job.status = COMPLETED
         THEN [Response(j, OK, job.status, FALSE, "none", -1) EXCEPT !.results = job.results]
    ELSE IF job.status = FAILED
         THEN [Response(j, OK, job.status, FALSE, "none", -1)
                  EXCEPT !.error = PresentedError(job.error)]
    ELSE [Response(j, INTERNAL_SERVER_ERROR, job.status, FALSE, "none", -1)
             EXCEPT !.error = "Unknown job status"]

\* GET /api/results/:job_id: isValidJobId, then storageService.getJob.
QueryGet(j, valid) ==
    /\ qry.pc \in {"idle", "done"}
    /\ IF ~valid THEN qry' = [Response(0, BAD_REQUEST, "none", FALSE, "none", -1)
                                 EXCEPT !.valid = FALSE]
       ELSE IF ~redisUp THEN QueryRespond(j, SERVICE_UNAVAILABLE, "none", FALSE, "none", -1)
       ELSE IF store[j] = Absent THEN QueryRespond(j, NOT_FOUND, "none", FALSE, "none", -1)
       ELSE IF store[j].status = PENDING
            THEN qry' = [NoQuery EXCEPT !.pc = "info_state", !.job = j, !.snap = PENDING,
                                     !.read = TRUE]
            ELSE qry' = AnswerStored(j, store[j])
    /\ store' = StoreAfterGet(j)
    /\ UNCHANGED <<q, waitq, sub, nextId, wk, redisUp, claimWins, created, enqueueCalled, orphaned, totalRunsCompleted, hist, sw, call, idgen, fx, sd, svc, uv>>

\* getJobInfo: queue.getJob and bullJob.getState.  An error is caught and
\* answered as not found.
QueryInfoState ==
    /\ qry.pc = "info_state"
    /\ IF ~redisUp \/ q[qry.job].state = "none"
       THEN QueryRespond(qry.job, OK, qry.snap, FALSE, "none", -1)
       ELSE IF q[qry.job].state = "waiting"
            THEN qry' = [qry EXCEPT !.pc = "info_wait", !.found = TRUE]
            ELSE IF q[qry.job].state = "active"
                 THEN QueryRespond(qry.job, OK, qry.snap, TRUE, "active", 0)
                 ELSE QueryRespond(qry.job, OK, qry.snap, TRUE, q[qry.job].state, -1)
    /\ UNCHANGED <<store, q, waitq, sub, nextId, wk, redisUp, claimWins, created, enqueueCalled, orphaned, totalRunsCompleted, hist, sw, call, idgen, fx, sd, svc, uv>>

\* getJobInfo of a waiting item: queue.getWaiting and queue.getActiveCount.
QueryInfoWait ==
    /\ qry.pc = "info_wait"
    /\ IF redisUp
       THEN QueryRespond(qry.job, OK, qry.snap, TRUE, "waiting", PositionIn(waitq, qry.job))
       ELSE QueryRespond(qry.job, OK, qry.snap, FALSE, "none", -1)
    /\ UNCHANGED <<store, q, waitq, sub, nextId, wk, redisUp, claimWins, created, enqueueCalled, orphaned, totalRunsCompleted, hist, sw, call, idgen, fx, sd, svc, uv>>

\* --------------------------------------------------------- specification
\* The job lifecycle with the handler running on the given workers
LifecycleOf(workers) ==
    \/ \E r \in Requests, valid \in BOOLEAN : Submit(r, valid)
    \/ \E r \in Requests : CreateExists(r)
    \/ \E r \in Requests : CreateSet(r)
    \/ \E r \in Requests : Enqueue(r)
    \/ \E r \in Requests : QueueFailUpdGet(r)
    \/ \E r \in Requests : QueueFailUpdSet(r)
    \/ \E w \in workers : Deliver(w)
    \/ \E w \in workers : ClaimGet(w)
    \/ \E w \in workers : UpdGet(w)
    \/ \E w \in workers : UpdSet(w)
    \/ \E w \in workers, o \in {"wellformed", "malformed", "retryable", "nonretryable"} :
            Fetch(w, o)
    \/ \E w \in workers : Finish(w)
    \/ \E w \in workers : JobTimeout(w)
    \/ \E w \in workers : Crash(w)
    \/ \E j \in JobIds : Promote(j)
    \/ \E j \in JobIds : StalledCheck(j)
    \/ \E j \in JobIds : Expire(j)
    \/ RedisDown
    \/ RedisBack

\* The job lifecycle with the configured concurrency
Lifecycle == LifecycleOf(Workers)

Next == Lifecycle \/ RunCleanup

Spec == Init /\ [][Next]_vars

\* The job lifecycle with a cleanup service whose findOldPendingJobs exists,
\* with one job processed at a time (WORKER_CONCURRENCY=1).
SweepSpec ==
    Init /\ [][\/ LifecycleOf({1})
               \/ \E found \in SUBSET JobIds, old \in SUBSET JobIds : SweepFind(found, old)
               \/ \E stuck \in BOOLEAN, old \in SUBSET JobIds : SweepInfo(stuck, old)
               \/ SweepRemove
               \/ \E old \in SUBSET JobIds : SweepUpdGet(old)
               \/ \E old \in SUBSET JobIds : SweepUpdSet(old)]_vars

\* The job lifecycle together with status queries, with one job processed at
\* a time (WORKER_CONCURRENCY=1).
QuerySpec ==
    Init /\ [][\/ LifecycleOf({1})
               \/ RunCleanup
               \/ \E j \in JobIds, valid \in BOOLEAN : QueryGet(j, valid)
               \/ QueryInfoState
               \/ QueryInfoWait]_vars

\* ------------------------------------------- storage.service, called alone
\* The variables of the job lifecycle, which a store call made on its own,
\* the id generator and the fetcher leave alone.
lifeVars == <<q, waitq, sub, nextId, wk, claimWins, created, enqueueCalled, orphaned,
              totalRunsCompleted, sw, sd, svc, uv>>

\* maxRetries of the retryOperation calls of createJob, getJob and updateJob
CreateRetries == 1
GetRetries == 3
UpdateRetries == 3

\* A stored value that loses its url on the way (not the program's).
JsonRoundTripNoUrl(rec) == [rec EXCEPT !.url = 0]

\* JSON.parse(JSON.stringify(rec)): a field whose value is undefined is dropped.
\* ("none" stands for a field that is not there, 0 for a number that is not.)
JsonRoundTrip(rec) ==
    [f \in DOMAIN rec |->
        IF f \in {"status", "results", "error", "error_type"} /\ rec[f] = "undefined"
        THEN "none" ELSE rec[f]]

\* !jobData.job_id || !jobData.url || !jobData.status
MissingRequired(data) ==
    data.job_id = 0 \/ data.url = 0 \/ data.status \in {"none", "", "undefined"}


\* retryOperation after a failed attempt: the next attempt, or the StorageError
\* once maxRetries attempts have failed.
AttemptFailed(cl, maxRetries) ==
    IF cl.attempt < maxRetries
    THEN [cl EXCEPT !.attempt = @ + 1]
    ELSE [NoCall EXCEPT !.pc = "done", !.op = cl.op, !.id = cl.id,
                        !.result = "storage_error", !.tries = cl.attempt]

Ended(cl, result, ret) ==
    [NoCall EXCEPT !.pc = "done", !.op = cl.op, !.id = cl.id, !.result = result,
                   !.ret = ret, !.tries = cl.attempt]

\* A caller starts createJob, getJob or updateJob.  createJob validates its
\* input before it touches Redis.
StoreCall(c, op, j, data) ==
    /\ call[c].pc \in {"idle", "done"}
    /\ call' = [call EXCEPT ![c] =
                  IF op = "create" /\ MissingRequired(data)
                  THEN [NoCall EXCEPT !.pc = "done", !.op = op, !.id = j,
                                      !.result = "validation_error"]
                  ELSE [NoCall EXCEPT !.pc = IF op = "create" THEN "exists" ELSE "get",
                                      !.op = op, !.id = j, !.data = data, !.attempt = 1]]
    /\ UNCHANGED <<store, redisUp, qry, hist, idgen, fx, lifeVars>>

\* createJob: one attempt of redis.exists
StoreExists(c) ==
    LET cl == call[c] IN
    /\ cl.pc = "exists"
    /\ call' = [call EXCEPT ![c] =
                  IF ~redisUp THEN AttemptFailed(cl, CreateRetries)
                  ELSE IF store[cl.id] # Absent THEN Ended(cl, "already_exists", NoData)
                  ELSE [cl EXCEPT !.pc = "setex", !.attempt = 1]]
    /\ UNCHANGED <<store, redisUp, qry, hist, idgen, fx, lifeVars>>

\* createJob: one attempt of redis.setex; createJob returns jobToStore
StoreCreateSet(c) ==
    LET cl == call[c] IN
    /\ cl.pc = "setex" /\ cl.op = "create"
    /\ IF redisUp
       THEN /\ store' = [store EXCEPT ![cl.id] = JsonRoundTrip(cl.data)]
            /\ call' = [call EXCEPT ![c] = Ended(cl, "ok", cl.data)]
            /\ hist' = [hist EXCEPT !.createOk[cl.id] = @ + 1]
       ELSE /\ call' = [call EXCEPT ![c] = AttemptFailed(cl, CreateRetries)]
            /\ UNCHANGED <<store, hist>>
    /\ UNCHANGED <<redisUp, qry, idgen, fx, lifeVars>>

\* getJob, called by itself or by updateJob: one attempt of redis.get
StoreGet(c) ==
    LET cl == call[c] IN
    /\ cl.pc = "get"
    /\ call' = [call EXCEPT ![c] =
                  IF ~redisUp THEN AttemptFailed(cl, GetRetries)
                  ELSE IF cl.op = "get"
                       THEN Ended(cl, IF store[cl.id] = Absent THEN "null" ELSE "ok",
                                  store[cl.id])
                  ELSE IF store[cl.id] = Absent THEN Ended(cl, "not_found", NoData)
                  ELSE [cl EXCEPT !.pc = "setex", !.snap = store[cl.id], !.attempt = 1]]
    /\ UNCHANGED <<store, redisUp, qry, hist, idgen, fx, lifeVars>>

\* updateJob: one attempt of redis.setex of { ...existing, ...updateData }
StoreUpdateSet(c) ==
    LET cl == call[c] IN
    /\ cl.pc = "setex" /\ cl.op = "update"
    /\ IF redisUp
       THEN /\ store' = [store EXCEPT ![cl.id] = JsonRoundTrip(Merge(cl.snap, cl.data))]
            /\ call' = [call EXCEPT ![c] = Ended(cl, "ok", Merge(cl.snap, cl.data))]
       ELSE /\ call' = [call EXCEPT ![c] = AttemptFailed(cl, UpdateRetries)]
            /\ UNCHANGED store
    /\ UNCHANGED <<redisUp, qry, hist, idgen, fx, lifeVars>>

\* The calls of the callers, with the jobData and updateData they pass, and
\* the steps of the calls.
StoreNext(callers) ==
    \/ \E c \in callers, j \in JobIds :
          \E data \in {NewJob(j), [NewJob(j) EXCEPT !.url = 2],
                       [NewJob(j) EXCEPT !.status = "ARCHIVED"],
                       [NewJob(j) EXCEPT !.status = ""]} :
            StoreCall(c, "create", j, data)
    \/ \E c \in callers, j \in JobIds : StoreCall(c, "get", j, NoData)
    \/ \E c \in callers, j \in JobIds,
          data \in {SaveData("parsed"), [status |-> FAILED], [url |-> 2]} :
            StoreCall(c, "update", j, data)
    \/ \E c \in callers : StoreExists(c)
    \/ \E c \in callers : StoreCreateSet(c)
    \/ \E c \in callers : StoreGet(c)
    \/ \E c \in callers : StoreUpdateSet(c)
    \/ RedisDown
    \/ RedisBack

\* The callers of the job store, running concurrently.
StoreSpec == Init /\ [][StoreNext(Callers)]_vars

\* One caller of the job store together with status queries.
ResultsSpec ==
    Init /\ [][\/ StoreNext({1})
               \/ \E j \in JobIds, valid \in BOOLEAN : QueryGet(j, valid)
               \/ QueryInfoState]_vars

\* The variables the fetcher and the id generator leave alone.
otherVars == <<store, redisUp, qry, hist, call, lifeVars>>
\* ... and those the shutdown, the cleanup timer and the URL validator leave alone.
coreVars == <<q, waitq, sub, nextId, wk, claimWins, created, enqueueCalled, orphaned,
              totalRunsCompleted, sw, store, redisUp, qry, hist, call, idgen, fx>>

\* ------------------------------------------------- worker.js: shutdown
PollMs == 2000
GraceMs == 25000

\* An item is added to the wait list.
ItemArrives ==
    /\ sd.pc # "exited" /\ sd.waiting < MaxWaiting
    /\ sd' = [sd EXCEPT !.waiting = @ + 1]
    /\ UNCHANGED <<coreVars, svc, uv>>

\* A wait that lets a paused queue hand out items (not Bull's).
MayTakePaused(paused) == TRUE

\* queue.process: Bull hands an item to the handler unless the queue is paused.
MayTake(paused) == ~paused

TakeItem ==
    /\ sd.pc # "exited" /\ MayTake(sd.paused)
    /\ sd.waiting > 0 /\ sd.active < Concurrency
    /\ sd' = [sd EXCEPT !.waiting = @ - 1, !.active = @ + 1]
    /\ UNCHANGED <<coreVars, svc, uv>>

\* The handler of an active item returns or throws.
ItemFinishes ==
    /\ sd.pc # "exited" /\ sd.active > 0
    /\ sd' = [sd EXCEPT !.active = @ - 1]
    /\ UNCHANGED <<coreVars, svc, uv>>

\* The item's timeout (5000 ms) passes: Bull fails the attempt and no longer
\* counts the item as processed by this worker, whatever its handler does.
ItemTimesOut ==
    /\ sd.pc # "exited" /\ sd.active > 0
    /\ sd' = [sd EXCEPT !.active = @ - 1]
    /\ UNCHANGED <<coreVars, svc, uv>>

\* SIGTERM, SIGINT, an uncaught exception or an unhandled rejection
Signal ==
    /\ sd.pc = "running"
    /\ sd' = [sd EXCEPT !.pc = "pause"]
    /\ UNCHANGED <<coreVars, svc, uv>>

\* process.exit(1) in shutdown's catch
ExitOnError(s) == [s EXCEPT !.pc = "exited", !.exitCode = 1]

\* await queue.pause(true, true); an error of it goes to the catch.
Pause(ok) ==
    /\ sd.pc = "pause"
    /\ sd' = IF ok THEN [sd EXCEPT !.pc = "poll", !.paused = TRUE] ELSE ExitOnError(sd)
    /\ UNCHANGED <<coreVars, svc, uv>>

\* waitForJobs: queue.getActiveCount(); an error of it ends the race and goes to
\* the catch.
WaitForJobs(ok) ==
    /\ sd.pc = "poll"
    /\ sd' = IF ~ok THEN ExitOnError(sd)
             ELSE IF sd.active > 0 THEN [sd EXCEPT !.pc = "sleep"]
             ELSE [sd EXCEPT !.pc = "close_queue", !.sawIdle = TRUE]
    /\ UNCHANGED <<coreVars, svc, uv>>

\* waitForJobs: the 2 seconds between two looks have passed.
PollAgain ==
    /\ sd.pc = "sleep" /\ sd.elapsed + PollMs < GraceMs
    /\ sd' = [sd EXCEPT !.pc = "poll", !.elapsed = @ + PollMs]
    /\ UNCHANGED <<coreVars, svc, uv>>

\* The 25 second timer of Promise.race fires first.
GraceOver ==
    /\ sd.pc = "sleep" /\ sd.elapsed + PollMs >= GraceMs
    /\ sd' = [sd EXCEPT !.pc = "close_queue", !.elapsed = GraceMs]
    /\ UNCHANGED <<coreVars, svc, uv>>

\* await closeQueue(): queue.close() returns once no item is processed by this
\* worker any more; closeQueue logs and swallows an error of it.
CloseQueue ==
    /\ sd.pc = "close_queue" /\ sd.active = 0
    /\ sd' = [sd EXCEPT !.pc = "close_store", !.closeQueueDone = TRUE]
    /\ UNCHANGED <<coreVars, svc, uv>>

\* await closeRedisClient(): redisClient.quit(), whose error goes to the catch
CloseRedis(ok) ==
    /\ sd.pc = "close_store"
    /\ sd' = IF ok THEN [sd EXCEPT !.pc = "exit", !.storeClosed = TRUE] ELSE ExitOnError(sd)
    /\ UNCHANGED <<coreVars, svc, uv>>

\* process.exit(0)
Exit ==
    /\ sd.pc = "exit"
    /\ sd' = [sd EXCEPT !.pc = "exited", !.exitCode = 0]
    /\ UNCHANGED <<coreVars, svc, uv>>

\* The steps of shutdown(signal) and the timers it waits for.
ShutdownSteps ==
    \/ \E ok \in BOOLEAN : Pause(ok)
    \/ \E ok \in BOOLEAN : WaitForJobs(ok)
    \/ PollAgain
    \/ GraceOver
    \/ CloseQueue
    \/ \E ok \in BOOLEAN : CloseRedis(ok)
    \/ Exit

\* The worker process
ShutdownSpec ==
    Init /\ [][ItemArrives \/ TakeItem \/ ItemFinishes \/ ItemTimesOut \/ Signal
                \/ ShutdownSteps]_vars

\* The worker process where the event loop goes on: the shutdown handler takes
\* its next step and the timers fire; a handler of an item need not finish.
ShutdownLiveSpec == ShutdownSpec /\ WF_vars(ShutdownSteps) /\ WF_vars(ItemTimesOut)

\* ------------------------------------- CleanupService: start, stop, runs
\* A call of runCleanup runs up to its first await (findOldPendingJobs): "find".
\* start(intervalMinutes)
Start(enabled) ==
    /\ Len(svc.runs) < MaxInProgress
    /\ svc' = IF svc.isRunning \/ ~enabled THEN svc
              ELSE [svc EXCEPT !.isRunning = TRUE, !.runs = Append(@, "find"),
                               !.intervalId = 1, !.timers = @ + 1]
    /\ UNCHANGED <<coreVars, sd, uv>>

\* stop()
Stop ==
    /\ svc' = IF ~svc.isRunning \/ svc.intervalId = 0 THEN svc
              ELSE [svc EXCEPT !.isRunning = FALSE, !.intervalId = 0, !.timers = @ - 1]
    /\ UNCHANGED <<coreVars, sd, uv>>

\* The interval of setInterval has passed: () => this.runCleanup()
IntervalFires ==
    /\ svc.timers > 0 /\ Len(svc.runs) < MaxInProgress
    /\ svc' = [svc EXCEPT !.runs = Append(@, "find")]
    /\ UNCHANGED <<coreVars, sd, uv>>

\* forceRun()
ForceRun ==
    /\ Len(svc.runs) < MaxInProgress
    /\ svc' = [svc EXCEPT !.runs = Append(@, "find")]
    /\ UNCHANGED <<coreVars, sd, uv>>

\* The sequence without its i-th element
RemoveAt(seq, i) == SubSeq(seq, 1, i - 1) \o SubSeq(seq, i + 1, Len(seq))

\* One execution of runCleanup goes on after an await: from findOldPendingJobs
\* to the loop over the old jobs (or, on an error, to the catch, which ends the
\* run), from the loop to cleanOldJobs, and from there to the statistics.
RunGoesOn(i, ok) ==
    /\ i \in 1..Len(svc.runs)
    /\ svc.completed < MaxCompleted
    /\ svc' = CASE svc.runs[i] = "find" /\ ok -> [svc EXCEPT !.runs[i] = "jobs"]
                [] svc.runs[i] = "find" /\ ~ok -> [svc EXCEPT !.runs = RemoveAt(@, i)]
                [] svc.runs[i] = "jobs" -> [svc EXCEPT !.runs[i] = "clean"]
                [] svc.runs[i] = "clean" ->
                      [svc EXCEPT !.runs = RemoveAt(@, i), !.completed = @ + 1]
    /\ UNCHANGED <<coreVars, sd, uv>>

\* The cleanup service with a storage service that provides findOldPendingJobs
ServiceSpec ==
    Init /\ [][\/ \E enabled \in BOOLEAN : Start(enabled)
               \/ Stop
               \/ IntervalFires
               \/ ForceRun
               \/ \E i \in 1..MaxInProgress, ok \in BOOLEAN : RunGoesOn(i, ok)]_vars

\* ------------------------------------------------- the URL validator
\* The letters
Alphabet ==
    [upper |-> <<"A", "B", "C", "D", "E", "F", "G", "H", "I", "J", "K", "L", "M",
                 "N", "O", "P", "Q", "R", "S", "T", "U", "V", "W", "X", "Y", "Z">>,
     lower |-> <<"a", "b", "c", "d", "e", "f", "g", "h", "i", "j", "k", "l", "m",
                 "n", "o", "p", "q", "r", "s", "t", "u", "v", "w", "x", "y", "z">>]

\* String.prototype.toLowerCase
ToLowerCase(str) ==
    [i \in 1..Len(str) |->
        IF \E k \in 1..26 : Alphabet.upper[k] = str[i]
        THEN Alphabet.lower[CHOOSE k \in 1..26 : Alphabet.upper[k] = str[i]]
        ELSE str[i]]

\* String.prototype.startsWith / a regular expression /^prefix/
StartsWith(str, prefix) ==
    Len(str) >= Len(prefix) /\ SubSeq(str, 1, Len(prefix)) = prefix

\* The pieces of a host between its dots
RECURSIVE SplitDots(_)
SplitDots(str) ==
    IF \A i \in 1..Len(str) : str[i] # "."
    THEN <<str>>
    ELSE LET i == CHOOSE k \in 1..Len(str) :
                      str[k] = "." /\ \A m \in 1..(k - 1) : str[m] # "."
         IN <<SubSeq(str, 1, i - 1)>> \o SplitDots(SubSeq(str, i + 1, Len(str)))

\* A decimal number (below 2^31 for every input)
IsNumber(part) == Len(part) \in 1..10 /\ \A i \in 1..Len(part) : part[i] \in DigitChars

\* The k bytes of n, highest first
RECURSIVE Base256(_, _)
Base256(n, k) == IF k = 0 THEN <<>> ELSE Base256(n \div 256, k - 1) \o <<n % 256>>

\* The IPv4 parser of new URL(): up to four decimal numbers, the last of which
\* fills the bytes that are left (127.1 and 2130706433 are 127.0.0.1).  Hosts
\* with hexadecimal or octal parts are not among the inputs.
ParseIPv4(parts) ==
    LET n == Len(parts)
        nums == [i \in 1..n |-> DigitsValue(parts[i])]
        ok == /\ n <= 4
              /\ \A i \in 1..n : IsNumber(parts[i])
              /\ \A i \in 1..(n - 1) : nums[i] <= 255
              /\ n = 1 \/ (n = 2 /\ nums[n] < 16777216) \/ (n = 3 /\ nums[n] < 65536)
                       \/ (n = 4 /\ nums[n] < 256)
    IN  IF ok THEN [ok |-> TRUE, octets |-> SubSeq(nums, 1, n - 1) \o Base256(nums[n], 5 - n)]
        ELSE [ok |-> FALSE, octets |-> <<>>]

\* The characters of a host name
HostChars ==
    {Alphabet.upper[i] : i \in 1..26} \cup {Alphabet.lower[i] : i \in 1..26}
    \cup DigitChars \cup {".", "-"}

\* An IPv6 literal: hexadecimal digits and colons in brackets
IsIPLiteral(host) ==
    /\ Len(host) > 2 /\ host[1] = "[" /\ host[Len(host)] = "]"
    /\ \A i \in 2..(Len(host) - 1) :
          host[i] \in DigitChars \cup {":"} \cup {Alphabet.upper[k] : k \in 1..6}
                                         \cup {Alphabet.lower[k] : k \in 1..6}

\* new URL(urlString).hostname: an IPv6 literal keeps its brackets, a host that
\* ends in a number is an IPv4 address and is written a.b.c.d, any other host
\* is folded to lower case; a host that is none of them makes new URL throw.
UrlHostname(host) ==
    LET parts == SplitDots(host)
        Dotted(o) == NumStr(o[1]) \o <<".">> \o NumStr(o[2]) \o <<".">> \o
                     NumStr(o[3]) \o <<".">> \o NumStr(o[4])
    IN  IF IsIPLiteral(host) THEN [ok |-> TRUE, hostname |-> ToLowerCase(host)]
        ELSE IF \E i \in 1..Len(host) : host[i] \notin HostChars
             THEN [ok |-> FALSE, hostname |-> <<>>]
        ELSE IF IsNumber(parts[Len(parts)])
             THEN LET ip == ParseIPv4(parts)
                  IN  IF ip.ok THEN [ok |-> TRUE, hostname |-> Dotted(ip.octets)]
                      ELSE [ok |-> FALSE, hostname |-> <<>>]
        ELSE [ok |-> TRUE, hostname |-> ToLowerCase(host)]

\* url.length of scheme://host[:port]/path
UrlLength(url) ==
    Len(url.scheme) + 3 + Len(url.host)
    + (IF url.port = 0 THEN 0 ELSE 1 + Len(NumStr(url.port))) + url.pathLength

Schemes == [http |-> <<"h", "t", "t", "p">>, https |-> <<"h", "t", "t", "p", "s">>,
            ftp |-> <<"f", "t", "p">>, file |-> <<"f", "i", "l", "e">>]

\* urlSchema: Joi.string().uri({ scheme: ["http", "https"] }).max(2048)
validateUrl(url) ==
    /\ url.scheme \in {Schemes.http, Schemes.https}
    /\ IsIPLiteral(url.host) \/ \A i \in 1..Len(url.host) : url.host[i] \in HostChars
    /\ Len(url.host) > 0
    /\ UrlLength(url) <= MaxUrlLength

\* checkSSRF(urlString): TRUE when the URL is blocked; a URL that new URL cannot
\* parse is blocked too.  The regular expressions of privateIPv4Ranges and
\* ipv6PrivatePatterns are tested on the hostname.
checkSSRF(url) ==
    LET parsed == UrlHostname(url.host)
        hostname == parsed.hostname
        localhostPatterns ==
            {<<"l", "o", "c", "a", "l", "h", "o", "s", "t">>,
              <<"1", "2", "7", ".", "0", ".", "0", ".", "1">>,
              <<"0", ".", "0", ".", "0", ".", "0">>,
              <<":", ":", "1">>,
              <<"0", ":", "0", ":", "0", ":", "0", ":", "0", ":", "0", ":", "0", ":", "1">>,
              <<"0", "0", "0", "0", ":", "0", "0", "0", "0", ":", "0", "0", "0", "0", ":", "0",
                "0", "0", "0", ":", "0", "0", "0", "0", ":", "0", "0", "0", "0", ":", "0", "0",
                "0", "0", ":", "0", "0", "0", "1">>}
        Between(ch, lo, hi) == ch \in DigitChars /\ CharVal(ch) >= lo /\ CharVal(ch) <= hi
        privateIPv4Ranges(h) ==
            \/ StartsWith(h, <<"1", "0", ".">>)
            \/ /\ StartsWith(h, <<"1", "7", "2", ".">>) /\ Len(h) >= 7 /\ h[7] = "."
               /\ \/ h[5] = "1" /\ Between(h[6], 6, 9)
                  \/ h[5] = "2" /\ Between(h[6], 0, 9)
                  \/ h[5] = "3" /\ Between(h[6], 0, 1)
            \/ StartsWith(h, <<"1", "9", "2", ".", "1", "6", "8", ".">>)
            \/ StartsWith(h, <<"1", "6", "9", ".", "2", "5", "4", ".">>)
            \/ StartsWith(h, <<"1", "2", "7", ".">>)
            \/ StartsWith(h, <<"0", ".">>)
            \/ /\ StartsWith(h, <<"1", "0", "0", ".">>)
               /\ \/ /\ Len(h) >= 7 /\ h[7] = "."
                     /\ \/ h[5] = "6" /\ Between(h[6], 4, 9)
                        \/ Between(h[5], 7, 9) /\ Between(h[6], 0, 9)
                  \/ /\ Len(h) >= 8 /\ h[8] = "." /\ h[5] = "1"
                     /\ \/ Between(h[6], 0, 1) /\ Between(h[7], 0, 9)
                        \/ h[6] = "2" /\ Between(h[7], 0, 7)
        metadataHosts ==
            {<<"1", "6", "9", ".", "2", "5", "4", ".", "1", "6", "9", ".", "2", "5", "4">>,
              <<"m", "e", "t", "a", "d", "a", "t", "a", ".", "g", "o", "o", "g", "l", "e", ".",
                "i", "n", "t", "e", "r", "n", "a", "l">>,
              <<"m", "e", "t", "a", "d", "a", "t", "a", ".", "g", "o", "o", "g">>,
              <<"1", "0", "0", ".", "1", "0", "0", ".", "1", "0", "0", ".", "2", "0", "0">>}
        ipv6PrivatePatterns(h) ==
            LET l == ToLowerCase(h)
            IN  \/ StartsWith(l, <<"f", "e", "8", "0", ":">>)
                \/ StartsWith(l, <<"f", "c", "0", "0", ":">>)
                \/ StartsWith(l, <<"f", "d", "0", "0", ":">>)
    IN  \/ ~parsed.ok
        \/ hostname \in localhostPatterns
        \/ privateIPv4Ranges(hostname)
        \/ hostname \in metadataHosts
        \/ (\E i \in 1..Len(hostname) : hostname[i] = ":") /\ ipv6PrivatePatterns(hostname)

\* validateUrlComplete(url)
validateUrlComplete(x) ==
    IF x.type # "string" \/ x.empty
    THEN [valid |-> FALSE, error |-> "URL is required and must be a string"]
    ELSE IF ~validateUrl(x) THEN [valid |-> FALSE, error |-> "Invalid URL format"]
    ELSE IF checkSSRF(x) THEN [valid |-> FALSE, error |-> "Invalid URL"]
    ELSE IF UrlLength(x) > MaxUrlLength THEN [valid |-> FALSE, error |-> "URL too long"]
    ELSE [valid |-> TRUE, error |-> "none"]

\* The request bodies: URLs of four schemes, the hosts below, with and without
\* a port, and paths that bring the length to 2048 and to 2049 characters; the
\* empty string and a body without a url.
UrlInputs ==
    LET HostSamples ==
            {<<"e", "x", "a", "m", "p", "l", "e", ".", "c", "o", "m">>,
             <<"E", "X", "A", "M", "P", "L", "E", ".", "c", "o", "m">>,
             <<"l", "o", "c", "a", "l", "h", "o", "s", "t">>,
             <<"L", "o", "c", "a", "l", "H", "o", "s", "t">>,
             <<"m", "e", "t", "a", "d", "a", "t", "a", ".", "g", "o", "o", "g", "l", "e", ".",
               "i", "n", "t", "e", "r", "n", "a", "l">>,
             <<"m", "e", "t", "a", "d", "a", "t", "a", ".", "g", "o", "o", "g">>,
             <<"1", "2", "7", ".", "0", ".", "0", ".", "1">>,
             <<"1", "2", "7", ".", "1">>,
             <<"2", "1", "3", "0", "7", "0", "6", "4", "3", "3">>,
             <<"1", "0", ".", "0", ".", "0", ".", "1">>,
             <<"1", "0", ".", "e", "x", "a", "m", "p", "l", "e", ".", "c", "o", "m">>,
             <<"1", "1", ".", "0", ".", "0", ".", "1">>,
             <<"1", "7", "2", ".", "1", "5", ".", "0", ".", "1">>,
             <<"1", "7", "2", ".", "1", "6", ".", "0", ".", "1">>,
             <<"1", "7", "2", ".", "3", "1", ".", "2", "5", "5", ".", "1">>,
             <<"1", "7", "2", ".", "3", "2", ".", "0", ".", "1">>,
             <<"1", "9", "2", ".", "1", "6", "8", ".", "1", ".", "1">>,
             <<"1", "9", "2", ".", "1", "6", "9", ".", "1", ".", "1">>,
             <<"1", "6", "9", ".", "2", "5", "4", ".", "1", "6", "9", ".", "2", "5", "4">>,
             <<"1", "6", "9", ".", "2", "5", "4", ".", "1", ".", "1">>,
             <<"1", "6", "9", ".", "2", "5", "3", ".", "1", ".", "1">>,
             <<"1", "0", "0", ".", "1", "0", "0", ".", "1", "0", "0", ".", "2", "0", "0">>,
             <<"1", "0", "0", ".", "6", "4", ".", "0", ".", "1">>,
             <<"0", ".", "0", ".", "0", ".", "0">>,
             <<"8", ".", "8", ".", "8", ".", "8">>,
             <<"2", "5", "6", ".", "1", ".", "1", ".", "1">>,
             <<"1", ".", "2", ".", "3", ".", "4", ".", "5">>,
             <<"[", ":", ":", "1", "]">>,
             <<"[", "f", "e", "8", "0", ":", ":", "1", "]">>,
             <<"[", "f", "d", "0", "0", ":", ":", "1", "]">>,
             <<"[", "2", "0", "0", "1", ":", "d", "b", "8", ":", ":", "1", "]">>,
             <<"e", "x", "a", " ", "m", "p", "l", "e", ".", "c", "o", "m">>}
        Url(scheme, host, port, pathLength) ==
            [type |-> "string", empty |-> FALSE, scheme |-> scheme, host |-> host, port |-> port,
             pathLength |-> pathLength]
    IN
    {Url(scheme, host, port, 1) :
        scheme \in {Schemes.http, Schemes.https, Schemes.ftp, Schemes.file},
        host \in HostSamples, port \in {0, 3000}}
    \cup {Url(Schemes.https, host, 0, MaxUrlLength - 8 - Len(host) + over) :
        host \in HostSamples, over \in {0, 1}}
    \cup {[type |-> "string", empty |-> TRUE], [type |-> "undefined", empty |-> FALSE]}

\* analyseUrl up to its answer to an invalid URL: 400, or on to the job id.
AnalyseUrlValidates(x) ==
    /\ LET validation == validateUrlComplete(x)
       IN  uv' = [input |-> x, valid |-> validation.valid, error |-> validation.error,
                  status |-> IF validation.valid THEN 0 ELSE BAD_REQUEST]
    /\ UNCHANGED <<coreVars, sd, svc>>

UrlSpec == Init /\ [][\E x \in UrlInputs : AnalyseUrlValidates(x)]_vars

\* ------------------------------------------------------------ the fetcher
\* What axios.get ends with: a response with a status below 600, or an error
\* with a code.
AxiosOutcomes ==
    LET StatusSamples ==
            {200, 201, 204, 301, 304, 400, 403, 404, 410, 418, 429, 499, 500, 503, 599}
        CodeSamples ==
            {"ECONNABORTED", "ETIMEDOUT", "ENOTFOUND", "ECONNREFUSED", "ECONNRESET",
             "ERR_TLS_CERT_ALTNAME_INVALID", "CERT_HAS_EXPIRED", "ERR_TOO_MANY_REDIRECTS",
             "ERR_FR_MAX_CONTENT_LENGTH_EXCEEDED", "ERR_BAD_RESPONSE"}
    IN  {[status |-> st, code |-> "none"] : st \in StatusSamples}
            \cup {[status |-> 0, code |-> c] : c \in CodeSamples}
FetchMaxRetries == 3

\* new FetchError(message, statusCode, isRetryable, type)
FetchError(message, statusCode, isRetryable, type) ==
    [message |-> message, statusCode |-> statusCode, isRetryable |-> isRetryable,
     type |-> type]

\* A fetcher that takes 429 for any other client error (not the program's).
StatusErrorNo429(statusCode) ==
    IF statusCode >= 300 /\ statusCode < 400
    THEN FetchError("Unexpected redirect", statusCode, FALSE, "NETWORK_ERROR")
    ELSE IF statusCode >= 400 /\ statusCode < 500
    THEN FetchError("Client error", statusCode, FALSE, "NETWORK_ERROR")
    ELSE IF statusCode >= 500 /\ statusCode < 600
    THEN FetchError("Server error", statusCode, TRUE, "NETWORK_ERROR")
    ELSE FetchError("Unexpected status", statusCode, FALSE, "NETWORK_ERROR")

\* fetchUrl: the FetchError thrown for a response whose status is not 200
StatusError(statusCode) ==
    IF statusCode >= 300 /\ statusCode < 400
    THEN FetchError("Unexpected redirect", statusCode, FALSE, "NETWORK_ERROR")
    ELSE IF statusCode = 404
    THEN FetchError("URL not found (HTTP 404)", 404, FALSE, "NETWORK_ERROR")
    ELSE IF statusCode = 403
    THEN FetchError("Access forbidden (HTTP 403)", 403, FALSE, "NETWORK_ERROR")
    ELSE IF statusCode = 410
    THEN FetchError("URL gone (HTTP 410)", 410, FALSE, "NETWORK_ERROR")
    ELSE IF statusCode = 429
    THEN FetchError("Too many requests (HTTP 429)", 429, TRUE, "NETWORK_ERROR")
    ELSE IF statusCode >= 400 /\ statusCode < 500
    THEN FetchError("Client error", statusCode, FALSE, "NETWORK_ERROR")
    ELSE IF statusCode >= 500 /\ statusCode < 600
    THEN FetchError("Server error", statusCode, TRUE, "NETWORK_ERROR")
    ELSE FetchError("Unexpected status", statusCode, FALSE, "NETWORK_ERROR")

\* fetchUrl's catch: the FetchError thrown for an error of axios
CodeError(code) ==
    IF code \in {"ECONNABORTED", "ETIMEDOUT"}
    THEN FetchError("Request timeout - server took too long to respond", 0, TRUE, "TIMEOUT_ERROR")
    ELSE IF code = "ENOTFOUND"
    THEN FetchError("Domain not found (DNS error)", 0, FALSE, "NETWORK_ERROR")
    ELSE IF code = "ECONNREFUSED"
    THEN FetchError("Connection refused - server is not accepting connections", 0, TRUE, "NETWORK_ERROR")
    ELSE IF code = "ECONNRESET"
    THEN FetchError("Connection reset by server", 0, TRUE, "NETWORK_ERROR")
    ELSE IF code \in {"ERR_TLS_CERT_ALTNAME_INVALID", "CERT_HAS_EXPIRED"}
    THEN FetchError("SSL certificate error - certificate is invalid or expired", 0, FALSE,
                    "NETWORK_ERROR")
    ELSE IF code = "ERR_TOO_MANY_REDIRECTS"
    THEN FetchError("Too many redirects", 0, FALSE, "NETWORK_ERROR")
    ELSE IF code = "ERR_FR_MAX_CONTENT_LENGTH_EXCEEDED"
    THEN FetchError("Content too large - exceeds 10MB limit", 0, FALSE, "NETWORK_ERROR")
    ELSE FetchError("Unknown fetch error", 0, FALSE, "NETWORK_ERROR")

NoError == FetchError("none", 0, FALSE, "none")

\* fetchUrl: NoError when it returns { html, statusCode }, else the error thrown.
\* A FetchError thrown for a status has no code and is rethrown by the catch.
FetchUrl(outcome) ==
    IF outcome.code # "none" THEN CodeError(outcome.code)
    ELSE IF outcome.status = 200 THEN NoError
    ELSE StatusError(outcome.status)

\* A loop that goes on after a non-retryable error (not the program's).
GivesUpOnLastOnly(error, attempt, maxRetries) == attempt = maxRetries

\* fetchUrlWithRetry's catch: throw at once if not retryable, break on the last attempt
GivesUp(error, attempt, maxRetries) == ~error.isRetryable \/ attempt = maxRetries

\* fetchUrlWithRetry(url, maxRetries) is called; maxRetries is 3 by default.
FetchStart(maxRetries) ==
    /\ fx.pc \in {"idle", "done"}
    /\ fx' = [NoFetch EXCEPT !.pc = "attempt", !.attempt = 1, !.maxRetries = maxRetries]
    /\ UNCHANGED <<idgen, otherVars>>

\* One turn of fetchUrlWithRetry's loop: fetchUrl returns, or it throws and the
\* loop goes on, or the error is thrown to the caller.
FetchAttempt(outcome) ==
    /\ fx.pc = "attempt"
    /\ LET error == FetchUrl(outcome) IN
       fx' = IF error = NoError
             THEN [fx EXCEPT !.pc = "done", !.result = "returned", !.last = outcome]
             ELSE IF GivesUp(error, fx.attempt, fx.maxRetries)
             THEN [fx EXCEPT !.pc = "done", !.result = "thrown", !.last = outcome,
                             !.errors = Append(@, error)]
             ELSE [fx EXCEPT !.attempt = @ + 1, !.last = outcome,
                             !.errors = Append(@, error)]
    /\ UNCHANGED <<idgen, otherVars>>

FetchSpec ==
    Init /\ [][\/ \E maxRetries \in 1..FetchMaxRetries : FetchStart(maxRetries)
               \/ \E outcome \in AxiosOutcomes : FetchAttempt(outcome)]_vars

\* -------------------------------------------------- jobIdGenerator, alone
\* The clock moves on by a millisecond.
Tick ==
    /\ TsLess(idgen.clock, TsPlus(ClockStart, MaxTicks))
    /\ idgen' = [idgen EXCEPT !.clock = TsNext(@)]
    /\ UNCHANGED <<fx, otherVars>>

\* The wall clock is set back by a millisecond (a clock adjustment).
StepBack ==
    /\ TsLess(ClockStart, idgen.clock)
    /\ idgen' = [idgen EXCEPT !.clock = TsPrev(@), !.stepped = TRUE]
    /\ UNCHANGED <<fx, otherVars>>

Returns(g, timestamp, sequence) ==
    [g EXCEPT !.pc = "idle", !.lastTimestamp = timestamp, !.sequence = sequence,
              !.ids = Append(@, [id |-> JobIdOf(timestamp, sequence),
                                 timestamp |-> timestamp, sequence |-> sequence])]

\* generateNumericJobId, up to its return or to the loop that waits for the clock
Generate(random) ==
    /\ idgen.pc = "idle"
    /\ Len(idgen.ids) < MaxIds
    /\ LET timestamp == idgen.clock IN
       idgen' = IF timestamp = idgen.lastTimestamp
                THEN LET sequence == (idgen.sequence + 1) % SequenceModulus IN
                     IF sequence = 0
                     THEN [idgen EXCEPT !.pc = "spin", !.sequence = 0]
                     ELSE Returns(idgen, timestamp, sequence)
                ELSE Returns(idgen, timestamp, random)
    /\ UNCHANGED <<fx, otherVars>>

\* while (timestamp <= lastTimestamp) timestamp = Date.now(): the read that
\* ends the loop
GenerateSpin ==
    /\ idgen.pc = "spin"
    /\ TsLess(idgen.lastTimestamp, idgen.clock)
    /\ idgen' = Returns(idgen, idgen.clock, idgen.sequence)
    /\ UNCHANGED <<fx, otherVars>>

\* isValidJobId is called with a value, or with an id that was generated.
Validate(x) ==
    /\ idgen.pc = "idle"
    /\ idgen' = [idgen EXCEPT !.checked = [input |-> x, result |-> IsValidJobId(x)]]
    /\ UNCHANGED <<fx, otherVars>>

\* Math.random() gives the sequence 0, 7 or 999999.
IdSpec ==
    Init /\ [][\/ Tick
               \/ StepBack
               \/ \E random \in {0, 7, SequenceModulus - 1} : Generate(random)
               \/ GenerateSpin
               \/ \E x \in IdInputs : Validate(x)
               \/ \E i \in 1..Len(idgen.ids) : Validate(Str(idgen.ids[i].id))]_vars

\* ----------------------------------------------------------------- claims
NonPending == {PROCESSING, COMPLETED, FAILED}
JobOf(r) == sub[r].job
Returned(r) == sub[r].pc = "done" /\ JobOf(r) # 0
NoHandlerOn(j) == \A w \in Workers : wk[w].job # j

\* C1 (terminal immutability): once a stored record is COMPLETED or FAILED, no
\* step of a worker, of the submission handler or of the cleanup service changes
\* any of its fields; the record can only expire.
C1_TerminalImmutable ==
    [][\A j \in JobIds :
         store[j].status \in Terminal => (store'[j] = store[j] \/ store'[j] = Absent)]_vars

\* C2 (at most one claim wins): for every job_id at most one call of
\* updateJobIfPending(job_id, {status: PROCESSING}) returns true.
C2_AtMostOneClaimWins == \A j \in JobIds : claimWins[j] <= 1

\* C3 (idempotent redelivery): a processJob execution that was called when the
\* stored status was already PROCESSING, COMPLETED or FAILED never fetches and
\* never writes to the store, and it ends by returning success=false (the claim
\* refused), not by throwing.
C3_RedeliveryIsNoOp ==
    \A w \in Workers :
        (Handling(w) /\ wk[w].start \in NonPending) =>
            /\ wk[w].pc \in {"claim_get", "returned"}
            /\ wk[w].pc = "returned" => wk[w].res = "skipped"
            /\ wk[w].writes = 0
            /\ ~wk[w].fetched

\* C3's case: a delivery of an already claimed or finished job has returned.
C3_Witness ==
    \E w \in Workers :
        wk[w].pc = "returned" /\ wk[w].res = "skipped" /\ wk[w].start \in NonPending

\* C4 (store before enqueue): queueService.enqueue is called, and a work item
\* exists, only for a job_id whose createJob succeeded before; a request whose
\* createJob failed is answered 503 (storage unavailable) without enqueue having
\* been called.
C4_StoreBeforeEnqueue ==
    /\ \A j \in JobIds : (j \in enqueueCalled \/ q[j].state # "none") => j \in created
    /\ \A r \in Requests :
         sub[r].err = "storage" =>
            /\ sub[r].resp = SERVICE_UNAVAILABLE
            /\ JobOf(r) \notin enqueueCalled
            /\ q[JobOf(r)].state = "none"

\* C4's case: createJob failed for a submitted request and the handler returned.
C4_Witness ==
    \E r \in Requests :
        Returned(r) /\ sub[r].err = "storage" /\ JobOf(r) \notin created

\* C5 (enqueue failure is reconciled): when createJob succeeded and enqueue
\* failed, the handler returns 503 (queue unavailable) and the stored record is
\* FAILED with error "Failed to queue job".
C5_EnqueueFailureMarksFailed ==
    \A r \in Requests :
        (Returned(r) /\ sub[r].err = "queue") =>
            /\ sub[r].resp = SERVICE_UNAVAILABLE
            /\ \/ store[JobOf(r)] = Absent
               \/ /\ store[JobOf(r)].status = FAILED
                  /\ store[JobOf(r)].error = "Failed to queue job"

\* C6 (no dangling PENDING record): after the submission handler has returned, a
\* record whose stored status is PENDING has a work item that is waiting, active
\* or delayed in the queue.
C6_NoDanglingPending ==
    \A r \in Requests :
        (Returned(r) /\ store[JobOf(r)].status = PENDING) =>
            q[JobOf(r)].state \in {"waiting", "active", "delayed"}

\* C7 (every accepted job terminates): a job that was answered 202 does not come
\* to rest non-terminal: once its work item is finished in the queue (completed
\* or failed) and no handler runs for it, its record is COMPLETED or FAILED.
C7_AcceptedJobTerminates ==
    \A r \in Requests :
        (/\ sub[r].resp = ACCEPTED
         /\ q[JobOf(r)].state \in {"completed", "failed"}
         /\ NoHandlerOn(JobOf(r))
         /\ store[JobOf(r)] # Absent) =>
            store[JobOf(r)].status \in Terminal

\* A job at rest stays as it is: no step changes the record of a job whose work
\* item is finished and that no handler runs for, except its expiry.
AtRestIsFinal ==
    [][\A j \in JobIds :
         (q[j].state \in {"completed", "failed"} /\ NoHandlerOn(j)) =>
            /\ store'[j] = store[j] \/ store'[j] = Absent
            /\ q'[j] = q[j]
            /\ \A w \in Workers : wk'[w].job # j]_vars

\* C8 (a retryable failure does not fail the job early): the record is not set
\* to FAILED with a retryable fetch error while the work item has delivery
\* attempts left after the running one.
C8_NoEarlyFailed ==
    \A j \in JobIds :
        (store[j].status = FAILED /\ store[j].error = ErrMessage("fetch_retryable")) =>
            q[j].attemptsMade >= MaxAttempts - 1

\* C9 (queue-level retry is effective): a work item that is redelivered after an
\* attempt ended in a retryable fetch failure is processed again: it does not
\* complete with the claim refused.
C9_RetryProcessesAgain ==
    \A j \in JobIds :
        (q[j].state = "completed" /\ q[j].failedReason = "fetch_retryable") =>
            q[j].returnvalue # "skipped"

\* C10 (crash recovery by redelivery): when a worker stopped after it had claimed
\* a job and the stalled item was redelivered, the redelivery processes the job,
\* so that once the item is completed the record is COMPLETED or FAILED.
C10_CrashRecovery ==
    \A j \in JobIds :
        (j \in orphaned /\ q[j].state = "completed" /\ store[j] # Absent) =>
            store[j].status \in Terminal

\* C11 (retry exhaustion is recorded): once the queue has used up the delivery
\* attempts of a work item and no handler runs for the job, the record is not
\* left PROCESSING (it is to be FAILED with error "exceeded retry attempts").
C11_ExhaustionRecorded ==
    \A j \in JobIds :
        (/\ q[j].state = "failed"
         /\ q[j].attemptsMade >= MaxAttempts
         /\ NoHandlerOn(j)) =>
            store[j].status # PROCESSING

\* C12 (the sweeper converts lost jobs): a job that was lost (PENDING, no work
\* item) and older than the threshold when a cleanup run ended is FAILED with
\* error_type TIMEOUT_ERROR, until it expires.
C12_SweeperConvertsLost ==
    \A j \in hist.sweptLost :
        \/ store[j] = Absent
        \/ store[j].status = FAILED /\ store[j].error_type = "TIMEOUT_ERROR"

C14_ResultsXorError ==
    \A j \in JobIds :
        /\ store[j].status = COMPLETED =>
              store[j].results # "none" /\ store[j].error = "none"
        /\ store[j].status = FAILED =>
              store[j].error # "none" /\ store[j].results = "none"

\* The step in which the updateJob call of the given site of worker w ends
\* without a storage error.
WriteDone(w, site) ==
    /\ wk[w].pc = "upd_set" /\ wk[w].site = site
    /\ redisUp
    /\ wk'[w].pc \notin {"idle", "upd_set"}

\* C15 as stated (a non-retryable fetch failure is final): processJob never
\* goes from the write of a non-retryable fetch failure to its catch block,
\* from which it rethrows to the queue.
C15_NonRetryableNeverThrows ==
    [][\A w \in Workers :
         wk[w].site = "nonretry" => wk'[w].site \in {"nonretry", "none"}]_vars

\* C15, amended: when the write of the non-retryable fetch failure succeeds, the
\* record is FAILED with the fetch error's message and type, and processJob
\* returns success=false, retryable=false without throwing.
C15_NonRetryableIsFinal ==
    [][\A w \in Workers :
         WriteDone(w, "nonretry") =>
            /\ store'[wk[w].job].status = FAILED
            /\ store'[wk[w].job].error = ErrMessage("fetch_nonretryable")
            /\ store'[wk[w].job].error_type = ErrType("fetch_nonretryable")
            /\ wk'[w].pc = "returned" /\ wk'[w].res = "failed"]_vars

\* C15's case: processJob has returned after storing a non-retryable failure.
C15_Witness ==
    \E w \in Workers :
        /\ wk[w].pc = "returned" /\ wk[w].res = "failed"
        /\ store[wk[w].job].status = FAILED
        /\ store[wk[w].job].error = ErrMessage("fetch_nonretryable")

\* C16 (parse errors fail the job): a page the parser fails on is never stored
\* as COMPLETED.
C16_ParseErrorNeverCompleted ==
    \A j \in JobIds :
        store[j].status = COMPLETED => store[j].results # ParseHtml("malformed")

Accepted(j) == \E r \in Requests : sub[r].resp = ACCEPTED /\ sub[r].job = j

\* C18 (an accepted job is immediately queryable): a status query for a job
\* that was answered 202 and has not expired never answers 404; if no worker
\* has stored an outcome for the job when the query reads the record, it reads,
\* and then presents, PENDING or PROCESSING.
C18_AcceptedIsQueryable ==
    /\ [][(/\ qry.pc \in {"idle", "done"} /\ qry' # qry
           /\ qry'.job \in JobIds
           /\ Accepted(qry'.job) /\ qry'.job \notin hist.expired) =>
              /\ qry'.resp # NOT_FOUND
              /\ (qry'.job \notin hist.finished /\ qry'.resp # SERVICE_UNAVAILABLE) =>
                     qry'.snap \in {PENDING, PROCESSING}]_vars
    /\ [](qry.pc = "done" /\ qry.snap \in {PENDING, PROCESSING} =>
              qry.resp = OK /\ qry.view \in {PENDING, PROCESSING})

\* C18's case: a query for an accepted job no worker has finished was answered.
C18_Witness ==
    /\ qry.pc = "done" /\ qry.resp = OK
    /\ Accepted(qry.job) /\ qry.job \notin hist.finished
    /\ qry.view \in {PENDING, PROCESSING}

\* C19 (derived status view): for a stored PENDING getResults presents
\* PROCESSING exactly when the queue reports the item found with position > 0,
\* and PENDING otherwise; any other stored status is presented as it is.
C19_DerivedStatusView ==
    (qry.pc = "done" /\ qry.resp = OK) =>
        IF qry.snap = PENDING
        THEN /\ qry.view = PROCESSING <=> (qry.found /\ qry.position > 0)
             /\ qry.view # PROCESSING => qry.view = PENDING
        ELSE qry.view = qry.snap

\* C19's case: a PENDING job whose item is active (position 0) was presented.
C19_Witness ==
    /\ qry.pc = "done" /\ qry.resp = OK /\ qry.snap = PENDING
    /\ qry.found /\ qry.position = 0 /\ qry.view = PENDING

\* C19, second case: a PENDING job whose item waits was presented as PROCESSING.
C19_WitnessWaiting ==
    /\ qry.pc = "done" /\ qry.snap = PENDING /\ qry.position > 0
    /\ qry.view = PROCESSING

\* C20 (status queries are read-only): a step of getResults leaves every job
\* record and every work item as it is.
C20_QueryReadOnly ==
    [][qry' # qry => (store' = store /\ q' = q /\ waitq' = waitq)]_vars

\* C20's case: a query that presented a derived status has ended and the stored
\* status is still PENDING.
C20_Witness ==
    /\ qry.pc = "done" /\ qry.view = PROCESSING
    /\ store[qry.job].status = PENDING

\* C21 (order of the query outcomes): a malformed job_id is answered 400 and the
\* store is not read; otherwise a store failure is answered 503; otherwise an
\* absent record 404; otherwise a record whose status is PENDING, PROCESSING,
\* COMPLETED or FAILED is answered 200, a COMPLETED one with its results and a
\* FAILED one with its stored error or "Job processing failed"; a record with any
\* other status is answered 500 with the error "Unknown job status".
QueryStarts == qry.pc \in {"idle", "done"} /\ qry' # qry
C21_QueryOutcomeOrder ==
    [][/\ QueryStarts =>
            LET r == qry' IN
            IF ~r.valid THEN r.pc = "done" /\ r.resp = BAD_REQUEST /\ ~r.read
            ELSE IF ~redisUp THEN r.pc = "done" /\ r.resp = SERVICE_UNAVAILABLE
            ELSE IF store[r.job] = Absent THEN r.pc = "done" /\ r.resp = NOT_FOUND
            ELSE IF store[r.job].status = PENDING THEN r.pc = "info_state"
            ELSE IF store[r.job].status \in JOB_STATUS
                 THEN /\ r.pc = "done" /\ r.resp = OK /\ r.view = store[r.job].status
                      /\ store[r.job].status = COMPLETED => r.results = store[r.job].results
                      /\ store[r.job].status = FAILED =>
                            r.error = IF store[r.job].error = "none"
                                      THEN "Job processing failed"
                                      ELSE store[r.job].error
                 ELSE r.pc = "done" /\ r.resp = INTERNAL_SERVER_ERROR
                      /\ r.error = "Unknown job status"
       /\ (qry.pc \notin {"idle", "done"} /\ qry'.pc = "done") =>
            qry'.resp = OK /\ qry'.view \in {PENDING, PROCESSING}]_vars

\* A record with an unknown status was asked for, and one that failed without
\* a stored error.
C21_Witness ==
    /\ qry.pc = "done" /\ qry.resp = INTERNAL_SERVER_ERROR
    /\ qry.error = "Unknown job status"
    /\ store[qry.job] # Absent /\ store[qry.job].status \notin JOB_STATUS

\* C22 (createJob never overwrites): a createJob that finds a record under its
\* job_id fails with the already-exists error and leaves the record as it is,
\* and of the createJob calls for one job_id at most one succeeds, also when
\* they run concurrently.
C22_CreateNeverOverwrites ==
    /\ [](\A j \in JobIds : hist.createOk[j] <= 1)
    /\ [][\A c \in Callers :
            (call[c].op = "create" /\ call'[c] # call[c] /\ call[c].pc # "done"
                /\ store[call[c].id] # Absent) =>
               /\ store' = store
               /\ call'[c].pc = "done"
               /\ call'[c].result \in {"already_exists", "storage_error"}]_vars

\* C23 (store round trip): createJob stores its input and getJob returns what
\* is stored; updateJob stores the record it found with the fields of p over it,
\* job_id and url as they were; updateJob on an absent id fails with the
\* not-found error and creates no record.
CreateStored(c) ==
    call[c].op = "create" /\ call'[c].pc = "done" /\ call'[c].result = "ok"
        /\ call[c].pc = "setex"
UpdateStored(c) ==
    call[c].op = "update" /\ call'[c].pc = "done" /\ call'[c].result = "ok"
        /\ call[c].pc = "setex"
GetReturned(c) ==
    call[c].op = "get" /\ call'[c].pc = "done" /\ call'[c].result = "ok"
        /\ call[c].pc = "get"
UpdateOnAbsent(c) ==
    call[c].op = "update" /\ call[c].pc = "get" /\ call'[c] # call[c]
        /\ redisUp /\ store[call[c].id] = Absent
RoundTrip(c, keepsIdentity) ==
    LET cl == call[c] IN
    /\ CreateStored(c) => store'[cl.id] = cl.data
    /\ GetReturned(c) => call'[c].ret = store[cl.id]
    /\ UpdateStored(c) =>
          /\ \A f \in Fields :
                store'[cl.id][f] = IF f \in DOMAIN cl.data THEN cl.data[f] ELSE cl.snap[f]
          /\ keepsIdentity =>
                store'[cl.id].job_id = cl.snap.job_id /\ store'[cl.id].url = cl.snap.url
    /\ UpdateOnAbsent(c) =>
          call'[c].pc = "done" /\ call'[c].result = "not_found" /\ store' = store

C24_BoundedStoreRetry ==
    \A c \in Callers :
        /\ call[c].attempt <= 3
        /\ (call[c].pc = "done" /\ call[c].result = "storage_error") => call[c].tries = 3

\* C30 (queue position report): getJobInfo reports position 0 exactly when the
\* item is active, a position >= 1 when it is waiting and -1 when it is absent
\* or in a terminal queue state.
C30_PositionReport ==
    (qry.pc = "done" /\ qry.resp = OK /\ qry.snap = PENDING) =>
        /\ qry.position = 0 <=> (qry.found /\ qry.state = "active")
        /\ (qry.found /\ qry.state = "waiting") => qry.position >= 1
        /\ (~qry.found \/ qry.state \in {"completed", "failed"}) => qry.position = -1

\* C25 (job id uniqueness): no two ids returned by generateNumericJobId in one
\* process are equal.
C25_IdsUnique ==
    \A i, k \in 1..Len(idgen.ids) : i < k => idgen.ids[i].id # idgen.ids[k].id

\* C26 (job id ordering): a later call of generateNumericJobId never returns a
\* smaller id, compared as 19-digit numbers, than an earlier call.
IdValue(id) ==
    <<ParseInt(SubSeq(id, 1, TimestampDigits)),
      DigitsValue(SubSeq(id, TimestampDigits + 1, Len(id)))>>
IdLeq(a, b) ==
    LET x == IdValue(a)
        y == IdValue(b)
    IN TsLess(x[1], y[1]) \/ (x[1] = y[1] /\ x[2] <= y[2])
C26_IdsNonDecreasing ==
    \A i, k \in 1..Len(idgen.ids) : i < k => IdLeq(idgen.ids[i].id, idgen.ids[k].id)

\* As long as the clock was never set back the ids are distinct and ordered, and
\* an id returned after the sequence wrapped has a later timestamp.
IdsOrderedWhileClockAdvances ==
    ~idgen.stepped =>
        /\ C25_IdsUnique
        /\ C26_IdsNonDecreasing
        /\ idgen.pc = "spin" => idgen.sequence = 0
        /\ \A k \in 2..Len(idgen.ids) :
              (idgen.ids[k].sequence = 0 /\ idgen.ids[k - 1].sequence = SequenceModulus - 1)
                  => TsLess(idgen.ids[k - 1].timestamp, idgen.ids[k].timestamp)

\* C27 (generated ids are well formed): an id returned by generateNumericJobId
\* is a string of 19 digits, the first 13 the timestamp it was allocated at, the
\* last 6 the zero-padded sequence in 0..999999; isValidJobId accepts it and
\* getTimestampFromJobId returns the timestamp.
C27_GeneratedIdsWellFormed ==
    \A k \in 1..Len(idgen.ids) :
        LET e == idgen.ids[k] IN
        /\ Len(e.id) = 19
        /\ \A i \in 1..Len(e.id) : e.id[i] \in DigitChars
        /\ DigitsValue(SubSeq(e.id, 1, 7)) = e.timestamp[1]
        /\ DigitsValue(SubSeq(e.id, 8, 13)) = e.timestamp[2]
        /\ e.sequence \in 0..999999
        /\ DigitsValue(SubSeq(e.id, 14, 19)) = e.sequence
        /\ IsValidJobId(Str(e.id))
        /\ GetTimestampFromJobId(e.id) = e.timestamp

\* Ids with sequences that need padding were returned, one of them after the
\* sequence wrapped, and isValidJobId was called with a generated id.
C27_Witness ==
    /\ Len(idgen.ids) = MaxIds
    /\ \E k \in 1..Len(idgen.ids) : idgen.ids[k].sequence = 7
    /\ \E k \in 2..Len(idgen.ids) :
          idgen.ids[k].sequence = 0 /\ idgen.ids[k - 1].sequence = 999999
    /\ \E k \in 1..Len(idgen.ids) : idgen.checked = [input |-> Str(idgen.ids[k].id), result |-> TRUE]

\* C28 (isValidJobId): the answer is true exactly for a string of 19 decimal
\* digits whose first 13 digits spell a timestamp from 946684800000 (2000-01-01)
\* to 4102444800000 (2100-01-01), and false for every other value.
InYears2000To2100(chars) ==
    LET high == DigitsValue(SubSeq(chars, 1, 7))
        low == DigitsValue(SubSeq(chars, 8, 13))
    IN /\ high > 946684 \/ (high = 946684 /\ low >= 800000)
       /\ high < 4102444 \/ (high = 4102444 /\ low <= 800000)
C28_IsValidJobIdExact ==
    LET x == idgen.checked.input IN
    x.type # "none" =>
        idgen.checked.result =
            (/\ x.type = "string"
             /\ Len(x.chars) = 19
             /\ \A i \in 1..Len(x.chars) : x.chars[i] \in DigitChars
             /\ InYears2000To2100(x.chars))

\* isValidJobId was called with the last millisecond it accepts.
C28_Witness ==
    /\ idgen.checked.input = Str(TsStr(Year2100) \o Chars("9", 6))
    /\ idgen.checked.result = TRUE

\* C29 (fetch failure classification): fetchUrl reports HTTP 5xx, HTTP 429, a
\* timeout and a connection reset as retryable, every other HTTP 4xx, a DNS
\* failure, a TLS certificate failure and a redirect loop as non-retryable, and
\* it returns successfully only for HTTP 200.
Attempted == fx.last # NoFetch.last
LastError == fx.errors[Len(fx.errors)]
FailedAs(retryable) ==
    /\ ~(fx.pc = "done" /\ fx.result = "returned")
    /\ Len(fx.errors) > 0 /\ LastError.isRetryable = retryable
C29_FetchClassification ==
    Attempted =>
        LET status == fx.last.status
            code == fx.last.code
        IN /\ (code = "none" /\ status >= 500 /\ status <= 599) => FailedAs(TRUE)
           /\ (code = "none" /\ status = 429) => FailedAs(TRUE)
           /\ code \in {"ECONNABORTED", "ETIMEDOUT", "ECONNRESET"} => FailedAs(TRUE)
           /\ (code = "none" /\ status >= 400 /\ status <= 499 /\ status # 429) => FailedAs(FALSE)
           /\ code \in {"ENOTFOUND", "ERR_TLS_CERT_ALTNAME_INVALID", "CERT_HAS_EXPIRED",
                        "ERR_TOO_MANY_REDIRECTS"} => FailedAs(FALSE)
           /\ (fx.pc = "done" /\ fx.result = "returned") <=> (code = "none" /\ status = 200)

\* fetchUrlWithRetry gave up after a 429, a connection reset and a 503.
C29_Witness ==
    /\ fx.pc = "done" /\ fx.result = "thrown" /\ Len(fx.errors) = 3
    /\ fx.errors[1].statusCode = 429 /\ fx.errors[2].message = "Connection reset by server"
    /\ fx.last = [status |-> 503, code |-> "none"]

\* C35 (bounded fetch retry): fetchUrlWithRetry(url, n) calls fetchUrl at most n
\* times; it returns the first successful result; a non-retryable failure is
\* thrown at once; after n retryable failures the last error is thrown.
FetchCalls == Len(fx.errors) + IF fx.pc = "done" /\ fx.result = "returned" THEN 1 ELSE 0
C35_BoundedFetchRetry ==
    /\ FetchCalls <= fx.maxRetries
    /\ fx.pc = "attempt" =>
          /\ fx.attempt = Len(fx.errors) + 1 /\ fx.attempt <= fx.maxRetries
          /\ \A i \in 1..Len(fx.errors) : fx.errors[i].isRetryable
    /\ (fx.pc = "done" /\ fx.result = "returned") =>
          /\ fx.last = [status |-> 200, code |-> "none"]
          /\ \A i \in 1..Len(fx.errors) : fx.errors[i].isRetryable
    /\ (fx.pc = "done" /\ fx.result = "thrown") =>
          /\ Len(fx.errors) >= 1
          /\ \A i \in 1..(Len(fx.errors) - 1) : fx.errors[i].isRetryable
          /\ fx.errors[Len(fx.errors)] = FetchUrl(fx.last)
          /\ ~fx.errors[Len(fx.errors)].isRetryable \/ Len(fx.errors) = fx.maxRetries

\* A call with n = 2 threw its second retryable error.
C35_Witness ==
    /\ fx.pc = "done" /\ fx.result = "thrown" /\ fx.maxRetries = 2
    /\ Len(fx.errors) = 2 /\ fx.errors[2].isRetryable

\* C36 (stored status follows the state machine): a change of a record's stored
\* status is PENDING -> PROCESSING, PROCESSING -> COMPLETED, PROCESSING -> FAILED
\* or PENDING -> FAILED, and a new record is PENDING.
StatusSteps ==
    {<<PENDING, PROCESSING>>, <<PROCESSING, COMPLETED>>, <<PROCESSING, FAILED>>,
     <<PENDING, FAILED>>}
C36_StatusStateMachine ==
    [][\A j \in JobIds :
          store'[j] # store[j] =>
              IF store[j] = Absent THEN store'[j].status = PENDING
              ELSE store'[j] = Absent
                   \/ store'[j].status = store[j].status
                   \/ <<store[j].status, store'[j].status>> \in StatusSteps]_vars

\* No write sets a record back to PENDING.
NeverBackToPending ==
    [][\A j \in JobIds :
          (store[j] # Absent /\ store'[j] # Absent /\ store[j].status # PENDING)
              => store'[j].status # PENDING]_vars

\* C37 (a FAILED write attempt before every rethrow): processJob throws only at
\* the end of its catch block, after the updateJob call that stores FAILED with
\* the error has succeeded or failed, and it throws the error it caught.
C37_FailedWriteBeforeRethrow ==
    [][\A w \in Workers :
          (wk'[w].pc = "threw" /\ wk[w].pc # "threw") =>
              /\ wk[w].pc \in {"upd_get", "upd_set"} /\ wk[w].site = "catch"
              /\ UpdateData(wk[w].site, wk[w].err, wk[w].results).status = FAILED
              /\ wk'[w].err = wk[w].err
              /\ wk[w].err # "none"]_vars

\* processJob rethrew a retryable fetch error after its FAILED write failed:
\* the claim is its only write and the record is still PROCESSING.
C37_Witness ==
    \E w \in Workers :
        /\ wk[w].pc = "threw" /\ wk[w].err = "fetch_retryable" /\ wk[w].writes = 1
        /\ store[wk[w].job] # Absent /\ store[wk[w].job].status = PROCESSING

\* C38 (a storage failure in the claim step): a work item that Bull completed
\* because updateJobIfPending answered false does not belong to a record that is
\* still PENDING.
C38_ClaimFailureIsNotDone ==
    \A j \in JobIds :
        (q[j].state = "completed" /\ q[j].returnvalue = "skipped")
            => (store[j] = Absent \/ store[j].status # PENDING)

\* C40 (a rejected submission has no side effects): a request answered 400 for
\* its URL allocates no job id, creates no record and enqueues nothing.
C40_RejectionHasNoEffect ==
    [][\A r \in Requests :
          (sub[r].pc = "new" /\ sub'[r].pc = "done" /\ sub'[r].resp = BAD_REQUEST) =>
              /\ nextId' = nextId /\ sub'[r].job = 0
              /\ store' = store /\ q' = q /\ waitq' = waitq
              /\ created' = created /\ enqueueCalled' = enqueueCalled]_vars

\* A request was answered 400.
C40_Witness ==
    \E r \in Requests :
        /\ sub[r].pc = "done" /\ sub[r].resp = BAD_REQUEST /\ sub[r].job = 0
        /\ nextId = 1 /\ created = {} /\ enqueueCalled = {}

\* C31 (worker shutdown ordering): after the signal the queue is paused before
\* anything else and a paused queue hands out no item; the queue is closed only
\* after the wait saw no active item or 25 seconds have passed, the store only
\* after the queue; and every shutdown reaches process.exit, also when a
\* handler never finishes.
C31_ShutdownOrdering ==
    /\ [][/\ sd.paused => sd'.active <= sd.active
          /\ (sd.pc \notin {"running", "pause"} /\ sd.exitCode # 1) => sd.paused
          /\ (sd'.closeQueueDone /\ ~sd.closeQueueDone) =>
                /\ sd.paused /\ ~sd.storeClosed
                /\ sd.sawIdle \/ sd.elapsed = GraceMs
                /\ sd.elapsed <= GraceMs
          /\ (sd'.storeClosed /\ ~sd.storeClosed) => sd.closeQueueDone
          /\ (sd'.exitCode = 0) => sd'.storeClosed]_vars
    /\ (sd.pc # "running") ~> (sd.pc = "exited")

\* A shutdown ended with exit code 0 after the 25 seconds had passed, with an
\* item left in the wait list.
C31_Witness ==
    /\ sd.pc = "exited" /\ sd.exitCode = 0 /\ sd.elapsed = GraceMs /\ ~sd.sawIdle
    /\ sd.closeQueueDone /\ sd.storeClosed /\ sd.waiting > 0

\* The cleanup service stores the FAILED record of cleanupJob's branch `kind`.
SweepWrites(kind) ==
    /\ sw.pc = "upd_set" /\ sw.kind = kind /\ sw' # sw
    /\ store'[sw.job] # Absent /\ store'[sw.job].status = FAILED
    /\ store'[sw.job].error = (IF kind = "lost" THEN LostData ELSE StuckData).error

OneTimer == svc.timers = (IF svc.isRunning THEN 1 ELSE 0) /\ (svc.intervalId # 0) = svc.isRunning

\* The address a host stands for is loopback, private, link-local or a cloud
\* metadata address.
UnsafeHost(host) ==
    LET parts == SplitDots(host)
        ip == ParseIPv4(parts)
        o == ip.octets
    IN  \/ /\ ~IsIPLiteral(host) /\ ip.ok
           /\ \/ o[1] = 127
              \/ o[1] = 10
              \/ o[1] = 172 /\ o[2] \in 16..31
              \/ o[1] = 192 /\ o[2] = 168
              \/ o[1] = 169 /\ o[2] = 254
        \/ ToLowerCase(host) \in {<<"l", "o", "c", "a", "l", "h", "o", "s", "t">>,
                                  <<"[", ":", ":", "1", "]">>}
        \/ ToLowerCase(host) = <<"m", "e", "t", "a", "d", "a", "t", "a", ".", "g", "o", "o", "g",
                                 "l", "e", ".", "i", "n", "t", "e", "r", "n", "a", "l">>

UnsafeUrl(x) ==
    \/ x.scheme \notin {Schemes.http, Schemes.https}
    \/ UnsafeHost(x.host)
    \/ UrlLength(x) > MaxUrlLength

Validated == uv.input.type = "string" /\ ~uv.input.empty

\* C32 (URL validation rejects unsafe targets): a URL whose scheme is not http
\* or https, whose host is loopback, private, link-local or a metadata address,
\* or which is longer than 2048 characters is not valid, and analyseUrl
\* answers 400 for it.
C32_UnsafeUrlRejected ==
    (Validated /\ UnsafeUrl(uv.input)) => (~uv.valid /\ uv.status = BAD_REQUEST)

\* The same for every URL whose host is not an IPv6 literal.
UnsafeRejectedUnlessIPv6 ==
    (Validated /\ UnsafeUrl(uv.input) /\ ~IsIPLiteral(uv.input.host)) =>
        (~uv.valid /\ uv.status = BAD_REQUEST)
====
